---- MODULE Spec2Model ----
(***************************************************************************)
(* Verification model of dat-to-shortcode-converter: the collision-safe    *)
(* copy engine (should_copy_file, get_unique_target_path,                  *)
(* copy_file_with_verification, the three processing paths) and the        *)
(* platform classification pipeline.                                       *)
(*                                                                         *)
(* File and folder names are sequences of one-character strings, so that   *)
(* the regular expressions of the source are modelled by what they match.  *)
(* File contents are abstract values with a size, a SHA1 digest and a      *)
(* CRC32 checksum.                                                         *)
(***************************************************************************)
EXTENDS Integers, Sequences, FiniteSets, TLC

(***************************************************************************)
(* Characters and strings                                                  *)
(***************************************************************************)
UpperLetters ==
  <<"A","B","C","D","E","F","G","H","I","J","K","L","M",
    "N","O","P","Q","R","S","T","U","V","W","X","Y","Z">>

LowerLetters ==
  <<"a","b","c","d","e","f","g","h","i","j","k","l","m",
    "n","o","p","q","r","s","t","u","v","w","x","y","z">>

DigitChars == {"0","1","2","3","4","5","6","7","8","9"}

\* \w of Python's re on ASCII input
WordChars ==
  {UpperLetters[i] : i \in 1..26} \cup {LowerLetters[i] : i \in 1..26}
    \cup DigitChars \cup {"_"}

\* \s of Python's re on the characters the model uses
SpaceChars == {" "}

\* str.lower() on one character
LowerChar(c) ==
  IF \E i \in 1..26 : UpperLetters[i] = c
    THEN LowerLetters[CHOOSE i \in 1..26 : UpperLetters[i] = c]
    ELSE c

\* str.upper() on one character
UpperChar(c) ==
  IF \E i \in 1..26 : LowerLetters[i] = c
    THEN UpperLetters[CHOOSE i \in 1..26 : LowerLetters[i] = c]
    ELSE c

Lower(s) == [i \in 1..Len(s) |-> LowerChar(s[i])]

Upper(s) == [i \in 1..Len(s) |-> UpperChar(s[i])]

\* s[a..b], empty when a > b
Slice(s, a, b) == IF a > b THEN <<>> ELSE SubSeq(s, a, b)

\* str.strip()
RECURSIVE LStrip(_)
LStrip(s) ==
  IF s # <<>> /\ Head(s) \in SpaceChars THEN LStrip(Tail(s)) ELSE s

RECURSIVE RStrip(_)
RStrip(s) ==
  IF s # <<>> /\ s[Len(s)] \in SpaceChars
    THEN RStrip(SubSeq(s, 1, Len(s) - 1)) ELSE s

Strip(s) == RStrip(LStrip(s))

AllIn(s, a, b, chars) == \A k \in a..b : s[k] \in chars

\* smallest member of a non-empty set of integers
MinOf(S) == CHOOSE x \in S : \A y \in S : x <= y

\* str(n) for 0 <= n <= 999
DigitSeq == <<"0","1","2","3","4","5","6","7","8","9">>

Str(n) ==
  IF n < 10 THEN <<DigitSeq[n + 1]>>
  ELSE IF n < 100 THEN <<DigitSeq[(n \div 10) + 1], DigitSeq[(n % 10) + 1]>>
  ELSE <<DigitSeq[(n \div 100) + 1], DigitSeq[((n \div 10) % 10) + 1],
         DigitSeq[(n % 10) + 1]>>

(***************************************************************************)
(* extract_folder_hint: the seven patterns, tried in order with re.search  *)
(* (leftmost match); a pattern whose group(1).strip() is a stop word or    *)
(* has a length outside 1..8 is passed over.  NoHint models None.          *)
(***************************************************************************)
NoHint == <<>>

StopWords ==
  { <<"t","h","e">>, <<"a","n","d">>, <<"o","r">>, <<"o","f">>,
    <<"i","n">>, <<"a","t">>, <<"t","o">>, <<"f","o","r">> }

\* r'-(\w{1,8})$' and r'_(\w{1,8})$': group(1) of the leftmost match, or NoHint
HintSuffix(s, sep) ==
  LET starts == { i \in 1..Len(s) :
                    /\ s[i] = sep
                    /\ Len(s) - i >= 1 /\ Len(s) - i <= 8
                    /\ AllIn(s, i + 1, Len(s), WordChars) }
  IN IF starts = {} THEN NoHint ELSE Slice(s, MinOf(starts) + 1, Len(s))

\* r'\(([^)]{1,8})\)' and r'\[([^\]]{1,8})\]'
HintEnclosed(s, open, close) ==
  LET starts == { i \in 1..Len(s) :
                    /\ s[i] = open
                    /\ \E j \in (i + 2)..Len(s) :
                         /\ s[j] = close
                         /\ j - i - 1 <= 8
                         /\ \A k \in (i + 1)..(j - 1) : s[k] # close }
  IN IF starts = {} THEN NoHint
     ELSE LET i == MinOf(starts)
              j == MinOf({ k \in (i + 2)..Len(s) : s[k] = close })
          IN Slice(s, i + 1, j - 1)

AtWordStart(s, i) == i = 1 \/ s[i - 1] \in SpaceChars

\* r'(?:^|\s)v(\d+)' with re.IGNORECASE
HintVersion(s) ==
  LET starts == { i \in 1..Len(s) :
                    /\ AtWordStart(s, i)
                    /\ LowerChar(s[i]) = "v"
                    /\ i + 1 <= Len(s) /\ s[i + 1] \in DigitChars }
  IN IF starts = {} THEN NoHint
     ELSE LET i == MinOf(starts)
              ends == { j \in (i + 1)..Len(s) :
                          /\ AllIn(s, i + 1, j, DigitChars)
                          /\ (j = Len(s) \/ s[j + 1] \notin DigitChars) }
          IN Slice(s, i + 1, MinOf(ends))

\* r'(?:^|\s)(\d{1,3})$'
HintTrailingNumber(s) ==
  LET starts == { i \in 1..Len(s) :
                    /\ AtWordStart(s, i)
                    /\ Len(s) - i + 1 <= 3
                    /\ AllIn(s, i, Len(s), DigitChars) }
  IN IF starts = {} THEN NoHint ELSE Slice(s, MinOf(starts), Len(s))

\* r'(?:^|\s)(\w{2,4})(?:\s|$)'
HintShortWord(s) ==
  LET spans == { p \in (1..Len(s)) \X (2..4) :
                   /\ AtWordStart(s, p[1])
                   /\ p[1] + p[2] - 1 <= Len(s)
                   /\ AllIn(s, p[1], p[1] + p[2] - 1, WordChars)
                   /\ (p[1] + p[2] - 1 = Len(s)
                         \/ s[p[1] + p[2]] \in SpaceChars) }
  IN IF spans = {} THEN NoHint
     ELSE LET i == MinOf({ p[1] : p \in spans })
              n == CHOOSE n \in 2..4 : <<i, n>> \in spans
          IN Slice(s, i, i + n - 1)

HintCandidates(s) ==
  << HintSuffix(s, "-"), HintSuffix(s, "_"),
     HintEnclosed(s, "(", ")"), HintEnclosed(s, "[", "]"),
     HintVersion(s), HintTrailingNumber(s), HintShortWord(s) >>

HintAccepted(h) ==
  LET hint == Strip(h)
  IN Lower(hint) \notin StopWords /\ Len(hint) >= 1 /\ Len(hint) <= 8

extract_folder_hint(folder_name) ==
  LET s == Strip(folder_name)
      cands == HintCandidates(s)
      ok == { k \in 1..7 : cands[k] # NoHint /\ HintAccepted(cands[k]) }
  IN IF ok = {} THEN NoHint ELSE Strip(cands[MinOf(ok)])

(***************************************************************************)
(* File contents.  "E" is the empty file.  Sha1 is collision free on the   *)
(* modelled contents; Crc32 is a 32-bit checksum: "Z" stands for the four  *)
(* bytes 9d 0a d9 6d, whose CRC32 is 0, the CRC32 of the empty file.       *)
(***************************************************************************)
Contents == {"E", "X", "Y", "W", "Z"}

Absent == "absent"

Size(c) == CASE c = "E" -> 0 [] c = "X" -> 2 [] c = "Y" -> 2
             [] c = "W" -> 3 [] c = "Z" -> 4

Sha1(c) == CASE c = "E" -> "da39" [] c = "X" -> "d-x" [] c = "Y" -> "d-y"
             [] c = "W" -> "d-w" [] c = "Z" -> "d-z"

\* calculate_crc32: crc starts at 0 and is folded over the chunks read
Crc32(c) == CASE c = "E" -> 0 [] c = "X" -> 101 [] c = "Y" -> 102
              [] c = "W" -> 103 [] c = "Z" -> 0

None == "None"

\* calculate_sha1: the digest, or None when the file cannot be read
calculate_sha1(c, readable) == IF readable /\ c # Absent THEN Sha1(c) ELSE None

(***************************************************************************)
(* should_copy_file(source, target): tgt is the content at the target path *)
(* or Absent; statOk is FALSE when a stat call raises; srcHashOk/tgtHashOk *)
(* are FALSE when calculate_sha1 returns None for that side.               *)
(***************************************************************************)
Decision(copy, reason, action) ==
  [should_copy |-> copy, reason |-> reason, action |-> action]

\* should_copy_file with a failed hash treated as "nothing to do"
should_copy_file_skip_unhashable(src, tgt, statOk, srcHashOk, tgtHashOk) ==
  IF tgt = Absent THEN Decision(TRUE, "new_file", "copy")
  ELSE IF ~statOk THEN Decision(TRUE, "comparison_error", "copy_force")
  ELSE IF Size(src) # Size(tgt) THEN Decision(TRUE, "size_mismatch", "replace")
  ELSE IF calculate_sha1(src, srcHashOk) = None
            \/ calculate_sha1(tgt, tgtHashOk) = None
         THEN Decision(FALSE, "hash_failed", "skip")
  ELSE IF Sha1(src) = Sha1(tgt) THEN Decision(FALSE, "identical_hash", "skip")
  ELSE Decision(TRUE, "hash_mismatch", "replace")

should_copy_file(src, tgt, statOk, srcHashOk, tgtHashOk) ==
  IF tgt = Absent THEN Decision(TRUE, "new_file", "copy")
  ELSE IF ~statOk THEN Decision(TRUE, "comparison_error", "copy_force")
  ELSE IF Size(src) # Size(tgt) THEN Decision(TRUE, "size_mismatch", "replace")
  ELSE LET source_hash == calculate_sha1(src, srcHashOk)
           target_hash == calculate_sha1(tgt, tgtHashOk)
       IN IF source_hash = None
            THEN Decision(TRUE, "source_hash_failed", "copy_force")
          ELSE IF target_hash = None
            THEN Decision(TRUE, "target_hash_failed", "replace_force")
          ELSE IF source_hash = target_hash
            THEN Decision(FALSE, "identical_hash", "skip")
          ELSE Decision(TRUE, "hash_mismatch", "replace")

(***************************************************************************)
(* Target paths: platform directory and file name (stem followed by the    *)
(* suffix).  A disk is a function from the paths that exist to contents.   *)
(***************************************************************************)
TargetPath(platform, name) == [platform |-> platform, name |-> name]

Exists(d, p) == p \in DOMAIN d

ContentAt(d, p) == IF Exists(d, p) THEN d[p] ELSE Absent

\* f"{stem} ({tag}){suffix}"
UniqueName(stem, tag, suffix) == stem \o <<" ", "(">> \o tag \o <<")">> \o suffix

\* the bound of the numbered-suffix loop: while counter < 100
CounterLimit == 100

Resolution(path, reason, detail) ==
  [path |-> path, reason |-> reason, detail |-> detail]

Free(d, existing_paths, p) == p \notin existing_paths /\ ~Exists(d, p)

\* get_unique_target_path with the numbered suffix tried before the hint
get_unique_target_path_numbers_first(d, file, platform, source_folder_name, existing_paths, srcHashOk, tgtHashOk) ==
  LET base_target == TargetPath(platform, file.stem \o file.ext)
      source_hash == calculate_sha1(file.content, srcHashOk)
      target_hash == calculate_sha1(ContentAt(d, base_target), tgtHashOk)
      folder_hint == extract_folder_hint(source_folder_name)
      hint_path   == TargetPath(platform,
                                UniqueName(file.stem, folder_hint, file.ext))
      numbered(n) == TargetPath(platform, UniqueName(file.stem, Str(n), file.ext))
      counters    == { n \in 2..(CounterLimit - 1) :
                         Free(d, existing_paths, numbered(n)) }
  IN IF Free(d, existing_paths, base_target)
       THEN Resolution(base_target, "none", <<>>)
     ELSE IF /\ Exists(d, base_target)
             /\ source_hash # None /\ target_hash # None
             /\ source_hash = target_hash
       THEN Resolution(base_target, "skip_identical", <<>>)
     ELSE IF counters # {}
       THEN Resolution(numbered(MinOf(counters)), "renamed_with_number",
                       Str(MinOf(counters)))
     ELSE IF folder_hint # NoHint /\ Free(d, existing_paths, hint_path)
       THEN Resolution(hint_path, "renamed_with_hint", folder_hint)
     ELSE Resolution(base_target, "error_too_many_duplicates", <<>>)

get_unique_target_path(d, file, platform, source_folder_name, existing_paths, srcHashOk, tgtHashOk) ==
  LET base_target == TargetPath(platform, file.stem \o file.ext)
      source_hash == calculate_sha1(file.content, srcHashOk)
      target_hash == calculate_sha1(ContentAt(d, base_target), tgtHashOk)
      folder_hint == extract_folder_hint(source_folder_name)
      hint_path   == TargetPath(platform,
                                UniqueName(file.stem, folder_hint, file.ext))
      numbered(n) == TargetPath(platform, UniqueName(file.stem, Str(n), file.ext))
      counters    == { n \in 2..(CounterLimit - 1) :
                         Free(d, existing_paths, numbered(n)) }
  IN IF Free(d, existing_paths, base_target)
       THEN Resolution(base_target, "none", <<>>)
     ELSE IF /\ Exists(d, base_target)
             /\ source_hash # None /\ target_hash # None
             /\ source_hash = target_hash
       THEN Resolution(base_target, "skip_identical", <<>>)
     ELSE IF folder_hint # NoHint /\ Free(d, existing_paths, hint_path)
       THEN Resolution(hint_path, "renamed_with_hint", folder_hint)
     ELSE IF counters # {}
       THEN Resolution(numbered(MinOf(counters)), "renamed_with_number",
                       Str(MinOf(counters)))
     ELSE Resolution(base_target, "error_too_many_duplicates", <<>>)

IsRenamed(r) == r.reason \in {"renamed_with_hint", "renamed_with_number"}

(***************************************************************************)
(* The copy phase.  A source tree is a sequence of source folders, each    *)
(* with a name, the platform code it was classified to and its files in    *)
(* the order supplied.  Three paths of the source process it:              *)
(*   "perf"   PerformanceOptimizedROMProcessor.process_files_concurrent    *)
(*   "single" AsyncFileCopyEngine._process_single_threaded                 *)
(*   "conc"   AsyncFileCopyEngine._process_concurrent                      *)
(* A work unit is one source folder ("perf", "conc") or the whole          *)
(* flattened file list ("single").                                         *)
(***************************************************************************)
VARIABLES
  mode,      \* the processing path in use
  dry_run,   \* the dry_run flag of the engine
  tree,      \* the source tree
  disk,      \* target files: path -> content
  dirs,      \* target directories that exist
  shutdown,  \* shutdown_handler.shutdown_event
  run,       \* 1: first invocation, 2: the invocation that follows it
  units,     \* work unit -> its worker's local state
  stats,     \* the counters the copy operation returns
  aborted,   \* the copy operation raised instead of returning
  faults,    \* I/O failures injected so far
  first,     \* disk and stats as the first invocation left them
  args,      \* the arguments of a call of a pure function
  result     \* what the call returned

vars == <<mode, dry_run, tree, disk, dirs, shutdown, run, units, stats,
          aborted, faults, first, args, result>>

\* the variables of the copy phase, and those of a call of a pure function
engine == <<mode, dry_run, tree, disk, dirs, shutdown, run, units, stats,
            aborted, faults, first>>

call == <<args, result>>

Modes == {"perf", "single", "conc"}

\* the bound of the model: how many I/O failures are injected in a run
MaxFaults == 3

\* copy_file_atomic / _copy_with_retry: max_retries=3
MaxRetries == 3

GameRom == [stem |-> <<"g">>, ext |-> <<".","r">>]

OtherRom == [stem |-> <<"h">>, ext |-> <<".","r">>]

\* names of the source folders: "NES-A", "NES"
FolderNames == << <<"N","E","S","-","A">>, <<"N","E","S">> >>

NumFolders == Len(FolderNames)

SourceContents == {"X", "Y", "Z"}

SourceFile(folder, nm, content) ==
  [folder |-> folder, stem |-> nm.stem, ext |-> nm.ext, content |-> content]

\* every folder holds the file "g.r"; the last folder also holds "h.r"
Trees ==
  { [f \in 1..NumFolders |->
       [name |-> FolderNames[f], platform |-> "nes",
        files |-> IF f = NumFolders
                    THEN <<SourceFile(f, GameRom, c[f]), SourceFile(f, OtherRom, "X")>>
                    ELSE <<SourceFile(f, GameRom, c[f])>>]]
    : c \in [1..NumFolders -> SourceContents] }

RECURSIVE Flatten(_, _)
Flatten(t, f) ==
  IF f > Len(t) THEN <<>> ELSE t[f].files \o Flatten(t, f + 1)

UnitIds(m) == IF m = "single" THEN {1} ELSE 1..NumFolders

UnitFiles(m, t, u) == IF m = "single" THEN Flatten(t, 1) ELSE t[u].files

ZeroCounts ==
  [copied |-> 0, replaced |-> 0, renamed |-> 0, skipped |-> 0, errors |-> 0]

ZeroStats ==
  [files_copied |-> 0, files_replaced |-> 0, files_renamed_duplicates |-> 0,
   files_skipped_duplicate |-> 0, errors |-> 0, files_processed |-> 0]

NoPath == TargetPath("", <<>>)

FreshUnit ==
  [pc |-> "next", idx |-> 1, attempt |-> 0, claimed |-> {}, tgt |-> NoPath,
   renamed |-> FALSE, reason |-> "", prior |-> Absent, cnt |-> ZeroCounts]

EmptyDisk == [p \in {} |-> "E"]

NoFirst == [disk |-> EmptyDisk, stats |-> ZeroStats, dry |-> FALSE]

NoCall == <<>>

Init ==
  /\ mode \in Modes
  /\ dry_run \in BOOLEAN
  /\ tree \in Trees
  /\ disk = EmptyDisk
  /\ dirs = {}
  /\ shutdown = FALSE
  /\ run = 1
  /\ units = [u \in UnitIds(mode) |-> FreshUnit]
  /\ stats = ZeroStats
  /\ aborted = FALSE
  /\ faults = 0
  /\ first = NoFirst
  /\ args = NoCall
  /\ result = NoCall

(***************************************************************************)
(* Steps of a worker                                                       *)
(***************************************************************************)
Files(u) == UnitFiles(mode, tree, u)

CurFile(u) == Files(u)[units[u].idx]

Platform(file) == tree[file.folder].platform

FolderName(file) == tree[file.folder].name

Bump(cnt, field) == [cnt EXCEPT ![field] = @ + 1]

\* the worker is done with its current file: the finally clause counts it
FileDone(u, unit, cnt) ==
  /\ units' = [units EXCEPT ![u] = [unit EXCEPT !.pc = "next", !.idx = @ + 1,
                                                !.attempt = 0, !.cnt = cnt]]
  /\ stats' = [stats EXCEPT !.files_processed = @ + 1]

\* an injected failure is charged to the budget; failures are injected into
\* the first invocation only
Fault(failed) ==
  /\ failed => faults < MaxFaults /\ run = 1
  /\ faults' = IF failed THEN faults + 1 ELSE faults

Unlink(d, p) == [q \in DOMAIN d \ {p} |-> d[q]]

WriteFile(d, p, c) == [q \in DOMAIN d \cup {p} |-> IF q = p THEN c ELSE d[q]]

\* process_files_concurrent.process_folder_files: target resolution, the
\* rename bookkeeping and the dry-run branch for the next file of the folder
BeginPerf(u) ==
  /\ mode = "perf" /\ units[u].pc = "next" /\ units[u].idx <= Len(Files(u))
  /\ \E srcHashOk, tgtHashOk \in BOOLEAN :
       LET file == CurFile(u)
           base == TargetPath(Platform(file), file.stem \o file.ext)
           r    == get_unique_target_path(disk, file, Platform(file),
                     FolderName(file), units[u].claimed, srcHashOk, tgtHashOk)
           c1   == IF IsRenamed(r) THEN Bump(units[u].cnt, "renamed")
                   ELSE units[u].cnt
           un   == [units[u] EXCEPT !.claimed = @ \cup {r.path}]
       IN /\ ~(srcHashOk /\ tgtHashOk) => Exists(disk, base)
          /\ Fault(~(srcHashOk /\ tgtHashOk))
          /\ IF r.reason = "skip_identical"
               THEN FileDone(u, un, Bump(units[u].cnt, "skipped"))
             ELSE IF dry_run
               THEN FileDone(u, un, IF IsRenamed(r) THEN Bump(c1, "renamed")
                                    ELSE Bump(c1, "copied"))
             ELSE /\ units' = [units EXCEPT ![u] =
                        [un EXCEPT !.pc = "decide", !.tgt = r.path,
                                   !.renamed = IsRenamed(r), !.cnt = c1]]
                  /\ stats' = stats
  /\ UNCHANGED <<mode, dry_run, tree, disk, dirs, shutdown, run, aborted, first, call>>

\* process_folder_files of process_files_concurrent: should_copy_file, the
\* shutdown check and the entry into copy_file_atomic
DecidePerf(u) ==
  /\ mode = "perf" /\ units[u].pc = "decide"
  /\ \E statOk, srcHashOk, tgtHashOk \in BOOLEAN :
       LET file == CurFile(u)
           tgt  == ContentAt(disk, units[u].tgt)
           d    == should_copy_file(file.content, tgt, statOk, srcHashOk, tgtHashOk)
           bad  == ~(statOk /\ srcHashOk /\ tgtHashOk)
       IN /\ bad => tgt # Absent /\ Size(tgt) = Size(file.content)
          /\ Fault(bad)
          /\ IF ~d.should_copy
               THEN FileDone(u, units[u], Bump(units[u].cnt, "skipped"))
             ELSE IF shutdown
               THEN \* return: the finally clause runs, the folder's totals
                    \* are never added to the global counters
                    /\ units' = [units EXCEPT ![u] = [@ EXCEPT !.pc = "done"]]
                    /\ stats' = [stats EXCEPT !.files_processed = @ + 1]
             ELSE /\ units' = [units EXCEPT ![u] =
                        [@ EXCEPT !.pc = "copy", !.attempt = 0,
                                  !.reason = d.reason, !.prior = tgt]]
                  /\ stats' = stats
  /\ UNCHANGED <<mode, dry_run, tree, disk, dirs, shutdown, run, aborted, first, call>>

\* _process_single_threaded: target resolution, the rename bookkeeping and
\* the entry into _copy_with_retry, whose first statement creates the target
\* directory outside any try block
BeginSingle(u) ==
  /\ mode = "single" /\ units[u].pc = "next" /\ units[u].idx <= Len(Files(u))
  /\ \E srcHashOk, tgtHashOk, mkdirOk \in BOOLEAN :
       LET file == CurFile(u)
           base == TargetPath(Platform(file), file.stem \o file.ext)
           r    == get_unique_target_path(disk, file, Platform(file),
                     FolderName(file), units[u].claimed, srcHashOk, tgtHashOk)
           c1   == IF IsRenamed(r) THEN Bump(units[u].cnt, "renamed")
                   ELSE units[u].cnt
           un   == [units[u] EXCEPT !.claimed = @ \cup {r.path}, !.cnt = c1]
           skip == r.reason = "skip_identical"
       IN /\ ~(srcHashOk /\ tgtHashOk) => Exists(disk, base)
          /\ ~mkdirOk => ~skip /\ Platform(file) \notin dirs
          /\ ~(srcHashOk /\ tgtHashOk) => mkdirOk
          /\ Fault(~(srcHashOk /\ tgtHashOk /\ mkdirOk))
          /\ IF skip
               THEN /\ FileDone(u, un, Bump(units[u].cnt, "skipped"))
                    /\ UNCHANGED <<dirs, aborted>>
             ELSE IF ~mkdirOk
               THEN \* the exception leaves _process_single_threaded
                    /\ units' = [units EXCEPT ![u] = [un EXCEPT !.pc = "exited"]]
                    /\ aborted' = TRUE
                    /\ UNCHANGED <<dirs, stats>>
             ELSE /\ units' = [units EXCEPT ![u] =
                        [un EXCEPT !.pc = "copy", !.attempt = 0, !.tgt = r.path,
                                   !.renamed = IsRenamed(r),
                                   !.prior = ContentAt(disk, r.path)]]
                  /\ dirs' = dirs \cup {Platform(file)}
                  /\ UNCHANGED <<aborted, stats>>
  /\ UNCHANGED <<mode, dry_run, tree, disk, shutdown, run, first, call>>

\* _process_concurrent.process_folder_files: the target is always
\* target_dir/platform/name; the directory is created before the dry-run test
BeginConc(u) ==
  /\ mode = "conc" /\ units[u].pc = "next" /\ units[u].idx <= Len(Files(u))
  /\ \E mkdirOk \in BOOLEAN :
       LET file == CurFile(u)
           base == TargetPath(Platform(file), file.stem \o file.ext)
       IN /\ ~mkdirOk => Platform(file) \notin dirs
          /\ Fault(~mkdirOk)
          /\ IF ~mkdirOk
               THEN /\ FileDone(u, units[u], Bump(units[u].cnt, "errors"))
                    /\ dirs' = dirs
             ELSE /\ dirs' = dirs \cup {Platform(file)}
                  /\ IF dry_run
                       THEN FileDone(u, units[u], Bump(units[u].cnt, "copied"))
                     ELSE IF Exists(disk, base)
                       THEN FileDone(u, units[u], Bump(units[u].cnt, "skipped"))
                     ELSE /\ units' = [units EXCEPT ![u] =
                                [@ EXCEPT !.pc = "copy", !.attempt = 0,
                                          !.tgt = base, !.prior = Absent]]
                          /\ stats' = stats
  /\ UNCHANGED <<mode, dry_run, tree, disk, shutdown, run, aborted, first, call>>

\* copy_file_with_verification, up to the return of shutil.copy2: the target
\* directory is created and the source is written directly under the final
\* name.  The copy can land complete, land at 0 bytes without an error, or
\* raise after the target was opened for writing.
CopyOutcomes == {"ok", "empty", "raise", "mkdir_failed"}

Copy(u) ==
  /\ units[u].pc = "copy"
  /\ \E outcome \in CopyOutcomes :
       LET file == CurFile(u)
           tgt  == units[u].tgt
       IN /\ outcome = "mkdir_failed" => tgt.platform \notin dirs
          /\ outcome = "empty" => file.content # "E"
          /\ Fault(outcome # "ok")
          /\ dirs' = IF outcome = "mkdir_failed" THEN dirs
                     ELSE dirs \cup {tgt.platform}
          /\ disk' = CASE outcome = "ok" -> WriteFile(disk, tgt, file.content)
                       [] outcome \in {"empty", "raise"} -> WriteFile(disk, tgt, "E")
                       [] OTHER -> disk
          /\ units' = [units EXCEPT ![u] =
                [@ EXCEPT !.pc = IF outcome \in {"ok", "empty"}
                                   THEN "verify" ELSE "except"]]
  /\ UNCHANGED <<mode, dry_run, tree, shutdown, run, stats, aborted, first, call>>

\* the retry loops of copy_file_with_retry and _copy_with_retry after a
\* failed attempt: another attempt, or the file is counted as an error
AttemptFailed(u) ==
  IF units[u].attempt + 1 < MaxRetries
    THEN /\ units' = [units EXCEPT ![u] =
               [@ EXCEPT !.pc = "copy", !.attempt = @ + 1]]
         /\ stats' = stats
    ELSE FileDone(u, units[u], Bump(units[u].cnt, "errors"))

\* the caller's bookkeeping after a successful copy
CopySucceeded(u) ==
  LET cnt == units[u].cnt
  IN IF mode = "perf"
       THEN FileDone(u, units[u],
              IF units[u].renamed THEN cnt
              ELSE IF units[u].reason = "new_file" THEN Bump(cnt, "copied")
              ELSE Bump(cnt, "replaced"))
       ELSE FileDone(u, units[u], Bump(cnt, "copied"))

\* copy_file_with_verification: the CRC32 comparison; a mismatch removes the
\* target, a missing target raises into the except clause
Verify(u) ==
  /\ units[u].pc = "verify"
  /\ LET file == CurFile(u)
         tgt  == units[u].tgt
     IN IF ~Exists(disk, tgt)
          THEN AttemptFailed(u) /\ disk' = disk
        ELSE IF Crc32(file.content) # Crc32(disk[tgt])
          THEN AttemptFailed(u) /\ disk' = Unlink(disk, tgt)
        ELSE CopySucceeded(u) /\ disk' = disk
  /\ UNCHANGED <<mode, dry_run, tree, dirs, shutdown, run, aborted, faults, first, call>>

\* copy_file_with_verification: the except clause removes whatever is at the
\* target path
Except(u) ==
  /\ units[u].pc = "except"
  /\ AttemptFailed(u)
  /\ disk' = Unlink(disk, units[u].tgt)
  /\ UNCHANGED <<mode, dry_run, tree, dirs, shutdown, run, aborted, faults, first, call>>

\* the end of a work unit: the folder's totals are added to the global
\* counters under progress_lock (the single-threaded loop returns its stats)
AddCounts(st, cnt) ==
  [st EXCEPT !.files_copied = @ + cnt.copied,
             !.files_replaced = @ + cnt.replaced,
             !.files_renamed_duplicates = @ + cnt.renamed,
             !.files_skipped_duplicate = @ + cnt.skipped,
             !.errors = @ + cnt.errors]

FolderEnd(u) ==
  /\ units[u].pc = "next" /\ units[u].idx > Len(Files(u))
  /\ units' = [units EXCEPT ![u] = [@ EXCEPT !.pc = "done"]]
  /\ stats' = AddCounts(stats, units[u].cnt)
  /\ UNCHANGED <<mode, dry_run, tree, disk, dirs, shutdown, run, aborted,
                 faults, first, call>>

\* an exception leaves process_folder_files between two files (raised in
\* the finally clause or in an except handler): the orchestrator catches it
\* at future.result() and adds one error; the folder's counts are not added
Escape(u) ==
  /\ mode \in {"perf", "conc"}
  /\ units[u].pc = "next" /\ units[u].idx <= Len(Files(u))
  /\ Fault(TRUE)
  /\ units' = [units EXCEPT ![u] = [@ EXCEPT !.pc = "raised"]]
  /\ stats' = [stats EXCEPT !.errors = @ + 1]
  /\ UNCHANGED <<mode, dry_run, tree, disk, dirs, shutdown, run, aborted,
                 first, call>>

Running ==
  \E u \in DOMAIN units : units[u].pc \notin {"done", "exited", "raised"}

\* GracefulShutdownHandler.handle_shutdown, first signal: the event is set;
\* the handler runs in the main thread and ends with sys.exit(0), which
\* unwinds the single-threaded loop wherever it stands, while pool workers
\* run on and are joined by the executor
Shutdown ==
  /\ ~shutdown /\ Running
  /\ shutdown' = TRUE
  /\ units' = IF mode = "single"
                THEN [u \in DOMAIN units |-> [units[u] EXCEPT !.pc = "exited"]]
                ELSE units
  /\ UNCHANGED <<mode, dry_run, tree, disk, dirs, run, stats, aborted, faults,
                 first, call>>

\* the tool is run again on the same source tree: after a live run against
\* the target as it stands, after a dry run live against an emptied target
Rerun ==
  /\ run = 1 /\ ~shutdown /\ ~aborted /\ faults = 0
  /\ \A u \in DOMAIN units : units[u].pc = "done"
  /\ run' = 2
  /\ first' = [disk |-> disk, stats |-> stats, dry |-> dry_run]
  /\ units' = [u \in DOMAIN units |-> FreshUnit]
  /\ stats' = ZeroStats
  /\ dry_run' = FALSE
  /\ disk' = IF dry_run THEN EmptyDisk ELSE disk
  /\ dirs' = IF dry_run THEN {} ELSE dirs
  /\ UNCHANGED <<mode, tree, shutdown, aborted, faults, call>>

Worker(u) ==
  \/ BeginPerf(u)
  \/ DecidePerf(u)
  \/ BeginSingle(u)
  \/ BeginConc(u)
  \/ Copy(u)
  \/ Verify(u)
  \/ Except(u)
  \/ FolderEnd(u)
  \/ Escape(u)

Next ==
  \/ \E u \in DOMAIN units : Worker(u)
  \/ Shutdown
  \/ Rerun

Spec == Init /\ [][Next]_vars

(***************************************************************************)
(* Properties of the copy phase                                            *)
(***************************************************************************)
AllDone == \A u \in DOMAIN units : units[u].pc = "done"

\* a run that was neither interrupted nor hit by an I/O failure
Undisturbed == ~shutdown /\ ~aborted /\ faults = 0

SourceFiles == { Flatten(tree, 1)[i] : i \in 1..Len(Flatten(tree, 1)) }

FiveCounters(st) ==
  <<st.files_copied, st.files_replaced, st.files_renamed_duplicates,
    st.files_skipped_duplicate, st.errors>>

\* C1: in every strategy, when an undisturbed live run has finished, every
\* source file's content is present under its platform directory, so two
\* different files that share a name are both in the target
C1_BothFilesKept ==
  (run = 1 /\ ~dry_run /\ AllDone /\ Undisturbed) =>
    \A f \in SourceFiles :
      \E p \in DOMAIN disk : p.platform = Platform(f) /\ disk[p] = f.content

\* C2: when a copy is reported as successful, the target exists, has the
\* size of the source and is non-empty for a non-empty source
C2_SuccessImpliesSameSize ==
  [][\A u \in DOMAIN units :
       ( /\ units[u].pc = "verify"
         /\ units'[u].pc = "next"
         /\ units'[u].cnt.errors = units[u].cnt.errors )
       => /\ Exists(disk', units[u].tgt)
          /\ Size(disk'[units[u].tgt]) = Size(CurFile(u).content)]_vars

\* C3: under a final name there is never anything but a complete copy of a
\* source file, and a failed attempt leaves a file that was at the target
\* before the attempt in place
C3_AtomicOnFinalName ==
  [][ /\ \A p \in DOMAIN disk' : \E f \in SourceFiles : disk'[p] = f.content
      /\ \A u \in DOMAIN units :
           ( /\ units[u].pc \in {"verify", "except"}
             /\ units[u].prior # Absent
             /\ \/ units'[u].pc = "copy"
                \/ units'[u].cnt.errors > units[u].cnt.errors )
           => Exists(disk', units[u].tgt) ]_vars

\* C4: a second run on the same source and target, with no failure in
\* either run, changes nothing in the target and copies, replaces and
\* renames nothing
C4_SecondRunIdempotent ==
  (run = 2 /\ ~first.dry /\ AllDone) =>
    /\ disk = first.disk
    /\ stats.files_copied = 0
    /\ stats.files_replaced = 0
    /\ stats.files_renamed_duplicates = 0

\* C5: in every strategy a dry run creates no file and no directory in the
\* target
C5_DryRunWritesNothing ==
  (run = 1 /\ dry_run) => (disk = EmptyDisk /\ dirs = {})

\* C6: a dry run and a live run on the same input return the same five
\* counters
C6_DryRunSameCounters ==
  (run = 2 /\ first.dry /\ AllDone) =>
    FiveCounters(stats) = FiveCounters(first.stats)

\* C8: a failure while one file is processed never makes the copy
\* operation raise: the file is counted as an error and the run goes on
C8_FailureNeverAborts == ~aborted

\* C9: once the shutdown event is set, no worker begins to copy a file it
\* was not already copying
C9_NoNewFileAfterShutdown ==
  [][\A u \in DOMAIN units :
       (shutdown /\ units[u].pc \in {"next", "decide"})
       => units'[u].pc # "copy"]_vars

(***************************************************************************)
(* should_copy_file called on its own: a source file, a target path that   *)
(* is absent or holds some content, and the I/O failures that can occur    *)
(* while the two are compared                                              *)
(***************************************************************************)
Idle ==
  /\ mode = "none" /\ dry_run = FALSE /\ tree = <<>> /\ disk = EmptyDisk
  /\ dirs = {} /\ shutdown = FALSE /\ run = 0 /\ units = <<>>
  /\ stats = ZeroStats /\ aborted = FALSE /\ faults = 0 /\ first = NoFirst

Pending == Decision(FALSE, "pending", "")

DecideArgs ==
  [src : Contents, tgt : Contents \cup {Absent}, statOk : BOOLEAN,
   srcHashOk : BOOLEAN, tgtHashOk : BOOLEAN]

InitDecide == Idle /\ args \in DecideArgs /\ result = Pending

CallShouldCopy ==
  /\ result = Pending
  /\ result' = should_copy_file(args.src, args.tgt, args.statOk,
                                args.srcHashOk, args.tgtHashOk)
  /\ UNCHANGED <<args, engine>>

SpecDecide == InitDecide /\ [][CallShouldCopy]_vars

Decided == result # Pending

Chars(str) == [i \in 1..Len(str) |-> SubSeq(str, i, i)]

Lit(str) == [k |-> "lit", s |-> Chars(str)]

Rep(cls, atLeastOne, atMostOne, lazy) ==
  [k |-> "rep", cls |-> cls, atLeastOne |-> atLeastOne,
   atMostOne |-> atMostOne, lazy |-> lazy]

\* .*   .+   .?   .+?
AnyStar == Rep("any", FALSE, FALSE, FALSE)

AnyPlus == Rep("any", TRUE, FALSE, FALSE)

AnyOpt == Rep("any", FALSE, TRUE, FALSE)

AnyPlusLazy == Rep("any", TRUE, FALSE, TRUE)

\* \s*   \s+   \w+   [A-Z0-9]+ (under re.IGNORECASE)
Spaces == Rep("space", FALSE, FALSE, FALSE)

Spaces1 == Rep("space", TRUE, FALSE, FALSE)

Word1 == Rep("word", TRUE, FALSE, FALSE)

AlNum1 == Rep("alnum", TRUE, FALSE, FALSE)

\* (a|b|...), (?!p), ^, $, \b, and the parentheses of group 1
Alt(patterns) == [k |-> "alt", alts |-> patterns]

NotAhead(pattern) == [k |-> "not", p |-> pattern]

Bos == [k |-> "bos"]

Eos == [k |-> "eos"]

WordBoundary == [k |-> "wb"]

Open == [k |-> "open"]

Close == [k |-> "close"]

NoMatch == <<0, 0, 0>>

InClass(c, cls) ==
  CASE cls = "any"   -> TRUE
    [] cls = "space" -> c \in SpaceChars
    [] cls = "word"  -> c \in WordChars
    [] cls = "alnum" -> c \in WordChars /\ c # "_"

\* how many characters from position i on belong to the class
RunLength(s, i, cls) ==
  MinOf({ j \in i..(Len(s) + 1) : j = Len(s) + 1 \/ ~InClass(s[j], cls) }) - i

HasPrefixAt(s, i, lit) ==
  /\ i + Len(lit) - 1 <= Len(s)
  /\ \A j \in 1..Len(lit) : s[i + j - 1] = lit[j]

IsWordAt(s, i) == i >= 1 /\ i <= Len(s) /\ s[i] \in WordChars

\* of the attempts <<choice, match>>, those that matched
Successful(tried) == { t \in tried : t[2] # NoMatch }

\* the match of the first (lowest) and of the last (highest) choice
FirstChoice(ok) ==
  IF ok = {} THEN NoMatch
  ELSE (CHOOSE t \in ok : \A u \in ok : t[1] <= u[1])[2]

LastChoice(ok) ==
  IF ok = {} THEN NoMatch
  ELSE (CHOOSE t \in ok : \A u \in ok : t[1] >= u[1])[2]

\* a lazy repetition takes the fewest characters that let the rest match, a
\* greedy one the most
Choice(lazy, ok) == IF lazy THEN FirstChoice(ok) ELSE LastChoice(ok)

\* how many characters a repetition can take from position i on
Span(s, i, cls) == IF cls = "any" THEN Len(s) - i + 1 ELSE RunLength(s, i, cls)

Least(it) == IF it.atLeastOne THEN 1 ELSE 0

Most(it, span) == IF it.atMostOne /\ span > 1 THEN 1 ELSE span

RECURSIVE MatchAt(_, _, _, _, _)
MatchAt(pat, k, s, i, g) ==
  IF k > Len(pat) THEN <<i, g[1], g[2]>>
  ELSE
    LET it == pat[k]
    IN CASE it.k = "lit" ->
              IF HasPrefixAt(s, i, it.s)
                THEN MatchAt(pat, k + 1, s, i + Len(it.s), g) ELSE NoMatch
         [] it.k = "rep" ->
              Choice(it.lazy, Successful(
                { <<j, MatchAt(pat, k + 1, s, j, g)>> :
                    j \in (i + Least(it))..(i + Most(it, Span(s, i, it.cls))) }))
         [] it.k = "alt" ->
              FirstChoice(Successful(
                { <<a, MatchAt(it.alts[a] \o SubSeq(pat, k + 1, Len(pat)), 1, s, i, g)>> :
                    a \in 1..Len(it.alts) }))
         [] it.k = "not" ->
              IF MatchAt(it.p, 1, s, i, g) = NoMatch
                THEN MatchAt(pat, k + 1, s, i, g) ELSE NoMatch
         [] it.k = "bos" ->
              IF i = 1 THEN MatchAt(pat, k + 1, s, i, g) ELSE NoMatch
         [] it.k = "eos" ->
              IF i = Len(s) + 1 THEN MatchAt(pat, k + 1, s, i, g) ELSE NoMatch
         [] it.k = "wb" ->
              IF IsWordAt(s, i - 1) # IsWordAt(s, i)
                THEN MatchAt(pat, k + 1, s, i, g) ELSE NoMatch
         [] it.k = "open" -> MatchAt(pat, k + 1, s, i, <<i, g[2]>>)
         [] it.k = "close" -> MatchAt(pat, k + 1, s, i, <<g[1], i>>)

\* re.match(pattern, s) and re.search(pattern, s) on a pattern and a string
\* that were case-folded by the caller when the flag re.IGNORECASE is given
re_match(pat, s) == MatchAt(pat, 1, s, 1, <<0, 0>>)

\* a pattern that begins with .* is matched at a later start only if it is
\* matched at the first
LeadsWithAnyStar(pat) ==
  /\ pat # <<>> /\ pat[1].k = "rep" /\ pat[1].cls = "any"
  /\ ~pat[1].atLeastOne /\ ~pat[1].atMostOne

Starts(pat, s, i) == IF LeadsWithAnyStar(pat) THEN {i} ELSE i..(Len(s) + 1)

Found(start, match) == [start |-> start, match |-> match]

\* the match at the leftmost start, Found(0, NoMatch) when there is none
Leftmost(ok) ==
  IF ok = {} THEN Found(0, NoMatch)
  ELSE LET t == CHOOSE t \in ok : \A u \in ok : t[1] <= u[1]
       IN Found(t[1], t[2])

\* re.search from position i on
SearchFrom(pat, s, i) ==
  Leftmost(Successful({ <<j, MatchAt(pat, 1, s, j, <<0, 0>>)>> :
                          j \in Starts(pat, s, i) }))

re_search(pat, s) == SearchFrom(pat, s, 1).match

\* m.group(1) of a match m on the string s
Group1(s, m) == Slice(s, m[2], m[3] - 1)

\* re.sub(pattern, "", s) from position i on, for a pattern that matches no
\* empty string: the leftmost match is cut out and the scan goes on behind it
RECURSIVE re_sub_empty(_, _, _)
RECURSIVE CutOut(_, _, _, _)
CutOut(pat, s, i, found) ==
  IF found.start = 0 \/ found.start > Len(s) THEN Slice(s, i, Len(s))
  ELSE Slice(s, i, found.start - 1) \o re_sub_empty(pat, s, found.match[1])

re_sub_empty(pat, s, i) ==
  IF i > Len(s) THEN <<>> ELSE CutOut(pat, s, i, SearchFrom(pat, s, i))

\* the literals of a pattern in lower case: what re.IGNORECASE compares
RECURSIVE IgnoreCase(_)
IgnoreCase(pat) ==
  [k \in 1..Len(pat) |->
     CASE pat[k].k = "lit" -> [pat[k] EXCEPT !.s = Lower(@)]
       [] pat[k].k = "alt" ->
            [pat[k] EXCEPT !.alts = [a \in 1..Len(@) |-> IgnoreCase(@[a])]]
       [] pat[k].k = "not" -> [pat[k] EXCEPT !.p = IgnoreCase(@)]
       [] OTHER -> pat[k]]


(***************************************************************************)
(* The tables of the source                                                *)
(***************************************************************************)
\* EXCLUDED_PLATFORMS: the patterns, in the order of the dictionary
EXCLUDED_PLATFORMS ==
  << <<Lit("Sharp"), AnyStar, Lit("X68000"), AnyStar>>,
     <<Lit("Tiger"), AnyStar, Lit("Gizmondo"), AnyStar>>,
     <<Lit("Dragon Data"), AnyStar, Lit("Dragon"), AnyStar>>,
     <<AnyStar, Lit("TRS-80"), AnyStar>>,
     <<Lit("Sharp"), AnyStar, Lit("X1"), AnyStar>>,
     <<Lit("Tsukuda"), AnyStar, Lit("Othello"), AnyStar>>,
     <<Lit("Watara"), AnyStar, Lit("Supervision"), AnyStar>>,
     <<Lit("GCE"), AnyStar, Lit("Vectrex"), AnyStar>>,
     <<Lit("Magnavox"), AnyStar, Lit("Odyssey"), AnyStar>>,
     <<Lit("Philips"), AnyStar, Lit("Videopac"), AnyStar>>,
     <<AnyStar, Lit("Pokitto"), AnyStar>> >>

\* PLATFORM_MAPPINGS: pattern and shortcode of every entry, in the order of
\* the dictionary (the display name of an entry is only logged)
Entry(pattern, shortcode) == [pattern |-> pattern, shortcode |-> shortcode]

PLATFORM_MAPPINGS ==
  << Entry(<<Lit("Nintendo"), AnyStar, Lit("Super Nintendo"), AnyStar>>, "snes"),
     Entry(<<Lit("Nintendo"), AnyStar, Lit("Super Famicom"), AnyStar>>, "snes"),
     Entry(<<Lit("Nintendo"), AnyStar, Lit("Nintendo Entertainment System"), AnyStar>>, "nes"),
     Entry(<<Lit("Nintendo"), AnyStar, Lit("Famicom"), AnyStar, Lit("Entertainment System"), AnyStar>>, "nes"),
     Entry(<<Lit("Nintendo"), AnyStar, Lit("Famicom"), NotAhead(<<Spaces1, Alt(<< <<Lit("Disk")>>, <<Lit("&")>> >>)>>), AnyStar>>, "nes"),
     Entry(<<Lit("Nintendo"), AnyStar, Lit("Family Computer"), NotAhead(<<Spaces1, Lit("Disk")>>), AnyStar>>, "nes"),
     Entry(<<Lit("Nintendo"), AnyStar, Lit("Family Computer"), AnyStar, Lit("Disk"), AnyStar, Lit("System"), AnyStar>>, "fds"),
     Entry(<<Lit("Nintendo"), AnyStar, Lit("Famicom"), AnyStar, Lit("Disk"), AnyStar, Lit("System"), AnyStar>>, "fds"),
     Entry(<<Lit("Nintendo"), AnyStar, Lit("Game Boy"), NotAhead(<<Spaces1, Alt(<< <<Lit("Color")>>, <<Lit("Advance")>> >>)>>), AnyStar>>, "gb"),
     Entry(<<Lit("Nintendo"), AnyStar, Lit("Game Boy Color"), AnyStar>>, "gbc"),
     Entry(<<Lit("Nintendo"), AnyStar, Lit("Game Boy Advance"), AnyStar>>, "gba"),
     Entry(<<Lit("Nintendo"), AnyStar, Lit("Nintendo 64DD"), AnyStar>>, "n64dd"),
     Entry(<<Lit("Nintendo"), AnyStar, Lit("Nintendo 64"), AnyStar>>, "n64"),
     Entry(<<Lit("Nintendo"), AnyStar, Lit("GameCube"), AnyStar>>, "gc"),
     Entry(<<Lit("Nintendo"), AnyStar, Lit("Wii"), NotAhead(<<Spaces1, Lit("U")>>), AnyStar>>, "wii"),
     Entry(<<Lit("Nintendo"), AnyStar, Lit("Wii U"), AnyStar>>, "wiiu"),
     Entry(<<Lit("Nintendo"), AnyStar, Lit("Nintendo DS"), NotAhead(<<Lit("i")>>), AnyStar>>, "nds"),
     Entry(<<Lit("Nintendo"), AnyStar, Lit("Nintendo DSi"), AnyStar>>, "nds"),
     Entry(<<Lit("NDS"), AnyStar>>, "nds"),
     Entry(<<AnyStar, Lit("Nintendo DS"), AnyStar>>, "nds"),
     Entry(<<AnyStar, Lit("Game Boy"), NotAhead(<<Spaces1, Alt(<< <<Lit("Color")>>, <<Lit("Advance")>> >>)>>), AnyStar>>, "gb"),
     Entry(<<AnyStar, Lit("GB"), NotAhead(<<Spaces, Lit("C")>>), AnyStar>>, "gb"),
     Entry(<<Lit("Nintendo"), AnyStar, Lit("Nintendo 3DS"), AnyStar>>, "n3ds"),
     Entry(<<Lit("Nintendo"), AnyStar, Lit("Virtual Boy"), AnyStar>>, "virtualboy"),
     Entry(<<Lit("Nintendo"), AnyStar, Lit("Pokemon Mini"), AnyStar>>, "pokemini"),
     Entry(<<Bos, Lit("Nintendo 64"), Eos>>, "n64"),
     Entry(<<Bos, Lit("Nintendo Famicom Disk System"), Eos>>, "fds"),
     Entry(<<Bos, Lit("Nintendo Game Boy"), Eos>>, "gb"),
     Entry(<<Bos, Lit("Nintendo Game Boy Color"), Eos>>, "gbc"),
     Entry(<<Bos, Lit("Nintendo Game Boy Advance"), Eos>>, "gba"),
     Entry(<<Bos, Lit("Nintendo Pokemon Mini"), Eos>>, "pokemini"),
     Entry(<<Bos, Lit("Nintendo Virtual Boy"), Eos>>, "virtualboy"),
     Entry(<<Bos, Lit("Nintendo DS"), Eos>>, "nds"),
     Entry(<<Bos, Lit("Nintendo Super Famicom & Super Entertainment System"), Eos>>, "snes"),
     Entry(<<Bos, Lit("Nintendo Famicom & Entertainment System"), Eos>>, "nes"),
     Entry(<<Lit("Sega"), AnyStar, Lit("Master System"), AnyStar>>, "mastersystem"),
     Entry(<<Lit("Sega"), AnyStar, Lit("Mark III"), AnyStar>>, "mastersystem"),
     Entry(<<Lit("Sega"), AnyStar, Lit("Mega Drive"), AnyStar>>, "genesis"),
     Entry(<<Lit("Sega"), AnyStar, Lit("Genesis"), AnyStar>>, "genesis"),
     Entry(<<Lit("Sega"), AnyStar, Lit("Game Gear"), AnyStar>>, "gamegear"),
     Entry(<<Lit("Sega"), AnyStar, Lit("32X"), AnyStar>>, "sega32x"),
     Entry(<<Lit("Sega"), AnyStar, Lit("Mega"), AnyOpt, Lit("CD"), AnyStar>>, "segacd"),
     Entry(<<AnyStar, Lit("Genesis"), AnyStar>>, "genesis"),
     Entry(<<AnyStar, Lit("Mega Drive"), AnyStar>>, "genesis"),
     Entry(<<Lit("Sega"), AnyStar, Lit("Sega CD"), AnyStar>>, "segacd"),
     Entry(<<Lit("Sega"), AnyStar, Lit("Saturn"), AnyStar>>, "saturn"),
     Entry(<<Lit("Sega"), AnyStar, Lit("Dreamcast"), AnyStar>>, "dreamcast"),
     Entry(<<Lit("Sega"), AnyStar, Lit("SG-1000"), AnyStar>>, "sg1000"),
     Entry(<<Bos, Lit("Sega 32X"), Eos>>, "sega32x"),
     Entry(<<Bos, Lit("Sega Dreamcast"), Eos>>, "dreamcast"),
     Entry(<<Bos, Lit("Sega Game Gear"), Eos>>, "gamegear"),
     Entry(<<Bos, Lit("Sega Mark III & Master System"), Eos>>, "mastersystem"),
     Entry(<<Bos, Lit("Sega Mega Drive & Genesis"), Eos>>, "megadrive"),
     Entry(<<Bos, Lit("Sega Mega-CD & Sega CD"), Eos>>, "segacd"),
     Entry(<<Bos, Lit("Sega Saturn"), Eos>>, "saturn"),
     Entry(<<Bos, Lit("Sega Game 1000"), Eos>>, "sg1000"),
     Entry(<<Lit("Sony"), AnyStar, Lit("PlayStation"), NotAhead(<<Spaces1, Alt(<< <<Lit("2")>>, <<Lit("3")>>, <<Lit("4")>>, <<Lit("Portable")>>, <<Lit("Vita")>> >>)>>), AnyStar>>, "psx"),
     Entry(<<Lit("Sony"), AnyStar, Lit("PlayStation 2"), AnyStar>>, "ps2"),
     Entry(<<Lit("Sony"), AnyStar, Lit("PlayStation 3"), AnyStar>>, "ps3"),
     Entry(<<Lit("Sony"), AnyStar, Lit("PlayStation 4"), AnyStar>>, "ps4"),
     Entry(<<Lit("Sony"), AnyStar, Lit("PlayStation Portable"), AnyStar>>, "psp"),
     Entry(<<Lit("Sony"), AnyStar, Lit("PlayStation Vita"), AnyStar>>, "psvita"),
     Entry(<<AnyStar, Lit("PlayStation 1"), AnyStar>>, "psx"),
     Entry(<<AnyStar, Lit("PS1"), AnyStar>>, "psx"),
     Entry(<<AnyStar, Lit("PSX"), AnyStar>>, "psx"),
     Entry(<<Lit("Atari"), AnyStar, Lit("2600"), AnyStar>>, "atari2600"),
     Entry(<<Lit("Atari"), AnyStar, Lit("5200"), AnyStar>>, "atari5200"),
     Entry(<<Lit("Atari"), AnyStar, Lit("7800"), AnyStar>>, "atari7800"),
     Entry(<<Lit("Atari"), AnyStar, Lit("Lynx"), AnyStar>>, "atarilynx"),
     Entry(<<Lit("Atari"), AnyStar, Lit("Jaguar"), NotAhead(<<Spaces1, Lit("CD")>>), AnyStar>>, "atarijaguar"),
     Entry(<<Lit("Atari"), AnyStar, Lit("Jaguar CD"), AnyStar>>, "atarijaguarcd"),
     Entry(<<Lit("Atari"), AnyStar, Lit("8-bit"), AnyStar>>, "atari800"),
     Entry(<<Lit("Atari"), AnyStar, Lit("ST"), AnyStar>>, "atarist"),
     Entry(<<Lit("Atari"), AnyStar, Lit("XE"), AnyStar>>, "atarixe"),
     Entry(<<Bos, Lit("Atari 8bit"), Eos>>, "atari800"),
     Entry(<<Bos, Lit("Atari Lynx"), Eos>>, "atarilynx"),
     Entry(<<Bos, Lit("Atari ST"), Eos>>, "atarist"),
     Entry(<<Bos, Lit("Atari 2600 & VCS"), Eos>>, "atari2600"),
     Entry(<<Bos, Lit("Atari 5200"), Eos>>, "atari5200"),
     Entry(<<Bos, Lit("Atari 7800"), Eos>>, "atari7800"),
     Entry(<<Lit("DOS"), AnyStar>>, "pc"),
     Entry(<<Lit("IBM"), AnyStar, Lit("PC"), AnyStar>>, "pc"),
     Entry(<<AnyStar, Lit("PC and Compatibles"), AnyStar>>, "pc"),
     Entry(<<Lit("Commodore"), AnyStar, Lit("64"), AnyStar>>, "c64"),
     Entry(<<Lit("Commodore"), AnyStar, Lit("Amiga"), AnyStar>>, "amiga"),
     Entry(<<Lit("Coleco"), AnyStar, Lit("ColecoVision"), AnyStar>>, "colecovision"),
     Entry(<<Lit("Mattel"), AnyStar, Lit("Intellivision"), AnyStar>>, "intellivision"),
     Entry(<<Lit("NEC"), AnyStar, Lit("PC Engine"), AnyStar>>, "pcengine"),
     Entry(<<Lit("NEC"), AnyStar, Lit("TurboGrafx"), AnyStar>>, "pcengine"),
     Entry(<<Lit("SNK"), AnyStar, Lit("Neo"), AnyOpt, Lit("Geo Pocket"), NotAhead(<<Spaces1, Lit("Color")>>), AnyStar>>, "ngp"),
     Entry(<<Lit("SNK"), AnyStar, Lit("Neo"), AnyOpt, Lit("Geo Pocket Color"), AnyStar>>, "ngpc"),
     Entry(<<Lit("Bandai"), AnyStar, Lit("WonderSwan"), NotAhead(<<Spaces1, Lit("Color")>>), AnyStar>>, "wonderswan"),
     Entry(<<Lit("Bandai"), AnyStar, Lit("WonderSwan Color"), AnyStar>>, "wonderswancolor"),
     Entry(<<Lit("3DO"), AnyStar>>, "3do"),
     Entry(<<Lit("Amstrad"), AnyStar, Lit("CPC"), AnyStar>>, "amstradcpc"),
     Entry(<<Lit("Apple"), AnyStar, Lit("Apple II"), AnyStar>>, "apple2"),
     Entry(<<AnyStar, Lit("MSX"), NotAhead(<<Lit("2")>>), AnyStar>>, "msx"),
     Entry(<<Lit("Sinclair"), AnyStar, Lit("ZX Spectrum"), AnyStar>>, "zxspectrum"),
     Entry(<<Lit("Microsoft"), AnyStar, Lit("Xbox"), NotAhead(<<Spaces1, Lit("360")>>), AnyStar>>, "xbox"),
     Entry(<<Lit("Microsoft"), AnyStar, Lit("Xbox 360"), AnyStar>>, "xbox360"),
     Entry(<<AnyStar, Lit("Macintosh"), AnyStar>>, "macintosh"),
     Entry(<<Bos, Lit("3DO Interactive Multiplayer"), Eos>>, "3do"),
     Entry(<<AnyStar, Lit("3DO"), AnyStar>>, "3do"),
     Entry(<<Bos, Lit("Bandai WonderSwan Color"), Eos>>, "wonderswancolor"),
     Entry(<<Bos, Lit("Bandai WonderSwan"), Eos>>, "wonderswan"),
     Entry(<<AnyStar, Lit("WonderSwan Color")>>, "wonderswancolor"),
     Entry(<<AnyStar, Lit("WonderSwan")>>, "wonderswan"),
     Entry(<<Bos, Lit("Coleco ColecoVision"), Eos>>, "coleco"),
     Entry(<<AnyStar, Lit("ColecoVision")>>, "coleco"),
     Entry(<<Bos, Lit("GCE Vectrex"), Eos>>, "vectrex"),
     Entry(<<AnyStar, Lit("Vectrex")>>, "vectrex"),
     Entry(<<Bos, Lit("Magnavox Odyssey")>>, "odyssey2"),
     Entry(<<AnyStar, Lit("Odyssey"), AnyStar>>, "odyssey2"),
     Entry(<<Bos, Lit("Mattel Intellivision"), Eos>>, "intellivision"),
     Entry(<<AnyStar, Lit("Intellivision")>>, "intellivision"),
     Entry(<<Bos, Lit("NEC PC-Engine & TurboGrafx-16"), Eos>>, "pcengine"),
     Entry(<<Bos, Lit("NEC SuperGrafx"), Eos>>, "supergrafx"),
     Entry(<<Bos, Lit("NEC PC-8801"), Eos>>, "pc98"),
     Entry(<<Bos, Lit("SNK Neo-Geo CD"), Eos>>, "neogeocd"),
     Entry(<<Bos, Lit("SNK Neo-Geo Pocket Color"), Eos>>, "ngpc"),
     Entry(<<Bos, Lit("SNK Neo-Geo Pocket"), Eos>>, "ngp"),
     Entry(<<AnyStar, Lit("Neo-Geo CD")>>, "neogeocd"),
     Entry(<<AnyStar, Lit("Neo-Geo Pocket Color")>>, "ngpc"),
     Entry(<<AnyStar, Lit("Neo-Geo Pocket")>>, "ngp"),
     Entry(<<Bos, Lit("Sony PlayStation"), Eos>>, "psx"),
     Entry(<<Bos, Lit("Sony PlayStation 2"), Eos>>, "ps2"),
     Entry(<<Bos, Lit("Sony - PlayStation Portable"), Eos>>, "psp"),
     Entry(<<Bos, Lit("Watara Supervision"), Eos>>, "supervision"),
     Entry(<<AnyStar, Lit("Supervision")>>, "supervision"),
     Entry(<<Bos, Lit("Commodore Amiga"), Eos>>, "amiga"),
     Entry(<<AnyStar, Lit("Amiga")>>, "amiga"),
     Entry(<<Bos, Lit("Sharp X68000"), Eos>>, "x68000"),
     Entry(<<Bos, Lit("Sharp X1"), Eos>>, "x1"),
     Entry(<<AnyStar, Lit("X68000")>>, "x68000"),
     Entry(<<Bos, Lit("Tandy TRS-80"), AnyStar, Lit("Model I"), Eos>>, "trs80"),
     Entry(<<Bos, Lit("Tandy TRS-80"), AnyStar, Lit("Model III"), Eos>>, "trs80"),
     Entry(<<Bos, Lit("Tandy TRS-80"), AnyStar, Lit("Color Computer"), Eos>>, "coco"),
     Entry(<<Bos, Lit("Tiger Gizmondo"), Eos>>, "gizmondo"),
     Entry(<<Bos, Lit("Sinclair ZX Spectrum"), Eos>>, "zxspectrum"),
     Entry(<<Bos, Lit("Pokitto"), Eos>>, "pokitto"),
     Entry(<<Lit("Pokitto"), AnyStar>>, "pokitto"),
     Entry(<<Bos, Lit("Dragon")>>, "dragon32"),
     Entry(<<Lit("Dragon"), AnyStar>>, "dragon32"),
     Entry(<<Bos, Lit("Tsukuda Othello Multivision"), Eos>>, "othello"),
     Entry(<<AnyStar, Lit("Arcade"), AnyStar>>, "arcade"),
     Entry(<<Lit("Neo"), AnyOpt, Lit("Geo"), NotAhead(<<Spaces1, Lit("Pocket")>>), AnyStar>>, "neogeo"),
     Entry(<<Lit("FinalBurn"), AnyStar, Lit("Arcade"), AnyStar>>, "arcade"),
     Entry(<<Lit("MAME"), AnyStar>>, "arcade"),
     Entry(<<AnyStar, Lit("Atomiswave"), AnyStar>>, "atomiswave"),
     Entry(<<Bos, Lit("Atomiswave"), Eos>>, "atomiswave"),
     Entry(<<AnyStar, Lit("Cannonball"), AnyStar>>, "cannonball"),
     Entry(<<Bos, Lit("Cannonball"), Eos>>, "cannonball"),
     Entry(<<Lit("GoodNES"), AnyStar>>, "nes"),
     Entry(<<Lit("GoodSNES"), AnyStar>>, "snes"),
     Entry(<<Lit("GoodN64"), AnyStar>>, "n64"),
     Entry(<<Lit("N64"), AnyStar>>, "n64"),
     Entry(<<Lit("GoodGen"), AnyStar>>, "genesis"),
     Entry(<<Lit("GoodSMS"), AnyStar>>, "mastersystem"),
     Entry(<<Lit("GoodGG"), AnyStar>>, "gamegear"),
     Entry(<<Lit("Good32X"), AnyStar>>, "sega32x"),
     Entry(<<Lit("GoodMCD"), AnyStar>>, "segacd"),
     Entry(<<Lit("GoodSAT"), AnyStar>>, "saturn"),
     Entry(<<Lit("GoodPCE"), AnyStar>>, "pcengine"),
     Entry(<<Lit("GoodLynx"), AnyStar>>, "atarilynx"),
     Entry(<<Lit("Good5200"), AnyStar>>, "atari5200"),
     Entry(<<Lit("Good7800"), AnyStar>>, "atari7800"),
     Entry(<<Lit("Good2600"), AnyStar>>, "atari2600"),
     Entry(<<Lit("GoodGBC"), AnyStar>>, "gbc"),
     Entry(<<Lit("GoodGB"), AnyStar>>, "gb"),
     Entry(<<Lit("GoodGBA"), AnyStar>>, "gba"),
     Entry(<<Lit("GoodA26"), AnyStar>>, "atari2600"),
     Entry(<<Lit("GoodA78"), AnyStar>>, "atari7800"),
     Entry(<<Lit("GoodA52"), AnyStar>>, "atari5200"),
     Entry(<<Lit("GoodCOL"), AnyStar>>, "coleco"),
     Entry(<<Lit("GoodINTV"), AnyStar>>, "intellivision"),
     Entry(<<Lit("Good"), AnyStar>>, "unknown"),
     Entry(<<Lit("FinalBurn Neo - NES Games")>>, "nes"),
     Entry(<<Lit("FinalBurn Neo - SNES Games")>>, "snes"),
     Entry(<<Lit("FinalBurn Neo - Genesis Games")>>, "genesis"),
     Entry(<<Lit("FinalBurn Neo - Master System Games")>>, "mastersystem"),
     Entry(<<Lit("FinalBurn Neo - Game Gear Games")>>, "gamegear"),
     Entry(<<Lit("FinalBurn Neo - PC Engine Games")>>, "pcengine"),
     Entry(<<Lit("FinalBurn Neo - Neo Geo Games")>>, "neogeo"),
     Entry(<<Lit("FinalBurn Neo - CPS Games")>>, "arcade"),
     Entry(<<Lit("FinalBurn Neo - "), AnyStar>>, "arcade") >>

\* GoodPatternHandler.GOOD_TOOL_MAPPINGS: tag and shortcode
GOOD_TOOL_MAPPINGS ==
  << <<"NES", "nes">>,
     <<"SNES", "snes">>,
     <<"N64", "n64">>,
     <<"Gen", "genesis">>,
     <<"SMS", "mastersystem">>,
     <<"GG", "gamegear">>,
     <<"32X", "sega32x">>,
     <<"MCD", "segacd">>,
     <<"SAT", "saturn">>,
     <<"PCE", "pcengine">>,
     <<"Lynx", "atarilynx">>,
     <<"5200", "atari5200">>,
     <<"7800", "atari7800">>,
     <<"2600", "atari2600">>,
     <<"A26", "atari2600">>,
     <<"A78", "atari7800">>,
     <<"A52", "atari5200">>,
     <<"GBC", "gbc">>,
     <<"GB", "gb">>,
     <<"GBA", "gba">>,
     <<"COL", "coleco">>,
     <<"INTV", "intellivision">> >>

\* MAMEPatternHandler.FINALBURN_MAPPINGS: description and shortcode
FINALBURN_MAPPINGS ==
  << <<"NES Games", "nes">>,
     <<"SNES Games", "snes">>,
     <<"Genesis Games", "genesis">>,
     <<"Master System Games", "mastersystem">>,
     <<"Game Gear Games", "gamegear">>,
     <<"PC Engine Games", "pcengine">>,
     <<"Neo Geo Games", "neogeo">>,
     <<"CPS Games", "arcade">>,
     <<"Arcade Games", "arcade">> >>

\* r'^Good([A-Z0-9]+)\b.*'
GoodPattern == <<Bos, Lit("Good"), Open, AlNum1, Close, WordBoundary, AnyStar>>

\* r'^FinalBurn Neo - (.+)$'
FinalBurnPattern == <<Bos, Lit("FinalBurn Neo - "), Open, AnyPlus, Close, Eos>>

\* r'^MAME.*'
MamePattern == <<Bos, Lit("MAME"), AnyStar>>

\* SubcategoryConsolidationHandler.subcategory_patterns
subcategory_patterns ==
  << <<Bos, Open, AnyPlusLazy, Close, Spaces1, Lit("-"), Spaces1, Word1, Spaces1, Lit("-"), Spaces1, Alt(<< <<Lit("Games")>>, <<Lit("Applications")>>, <<Lit("Firmware")>>, <<Lit("Educational")>>, <<Lit("Various")>> >>), Spaces1, Lit("-"), Spaces1, Lit("["), AnyPlusLazy, Lit("]"), Spaces, AnyStar, Eos>>,
     <<Bos, Open, AnyPlusLazy, Close, Spaces1, Lit("-"), Spaces1, Word1, Spaces1, Lit("-"), Spaces1, Alt(<< <<Lit("Games")>>, <<Lit("Applications")>>, <<Lit("Firmware")>>, <<Lit("Educational")>>, <<Lit("Various")>> >>), Spaces, AnyStar, Eos>>,
     <<Bos, Open, AnyPlusLazy, Close, Spaces1, Lit("-"), Spaces1, Alt(<< <<Lit("Games")>>, <<Lit("Applications")>>, <<Lit("Firmware")>>, <<Lit("Educational")>>, <<Lit("Compilations")>>, <<Lit("Coverdisks")>>, <<Lit("Samplers")>>, <<Lit("Operating Systems")>>, <<Lit("Demos")>>, <<Lit("Various")>> >>), Spaces1, Lit("-"), Spaces1, Lit("["), AnyPlusLazy, Lit("]"), Spaces, AnyStar, Eos>>,
     <<Bos, Open, AnyPlusLazy, Close, Spaces1, Lit("-"), Spaces1, Alt(<< <<Lit("Games")>>, <<Lit("Applications")>>, <<Lit("Firmware")>>, <<Lit("Educational")>>, <<Lit("Compilations")>>, <<Lit("Coverdisks")>>, <<Lit("Samplers")>>, <<Lit("Operating Systems")>>, <<Lit("Demos")>>, <<Lit("Various")>> >>), Spaces, AnyStar, Eos>> >>

\* FormatIndicatorHandler.format_patterns
format_patterns ==
  << <<Spaces, Lit("-"), Spaces, Lit("["), AnyPlusLazy, Lit("]"), Spaces>>,
     <<Spaces, Lit("["), AnyPlusLazy, Lit("]"), Spaces>>,
     <<Spaces, Lit("("), AnyPlusLazy, Lit(")"), Spaces, Eos>> >>

\* PublisherDisambiguationHandler.publisher_patterns: one pattern, replaced
\* by its group 1
publisher_patterns ==
  << <<Bos, Lit("Microsoft"), Spaces1, Lit("-"), Spaces1, Open, Lit("MSX"), AnyStar, Close, Eos>> >>

\* RegionalPreferenceEngine.always_separate: platform and its patterns
always_separate ==
  << <<"fds", << <<AnyStar, Lit("Family Computer"), AnyStar, Lit("Disk"), AnyStar, Lit("System"), AnyStar>>, <<AnyStar, Lit("Famicom"), AnyStar, Lit("Disk"), AnyStar, Lit("System"), AnyStar>> >> >>,
     <<"n64dd", << <<AnyStar, Lit("Nintendo 64DD"), AnyStar>> >> >>,
     <<"segacd", << <<AnyStar, Lit("Sega"), AnyStar, Lit("CD"), AnyStar>>, <<AnyStar, Lit("Mega"), AnyOpt, Lit("CD"), AnyStar>> >> >>,
     <<"pcenginecd", << <<AnyStar, Lit("PC Engine"), AnyStar, Lit("CD"), AnyStar>> >> >>,
     <<"turbografxcd", << <<AnyStar, Lit("TurboGrafx"), AnyStar, Lit("CD"), AnyStar>> >> >> >>

\* RegionalPreferenceEngine.regional_mappings["regional"]
regional_mappings ==
  << <<"snes", << <<AnyStar, Lit("Super Nintendo"), AnyStar>> >> >>,
     <<"sfc", << <<AnyStar, Lit("Super Famicom"), AnyStar>> >> >>,
     <<"nes", << <<AnyStar, Lit("Nintendo Entertainment System"), AnyStar>> >> >>,
     <<"famicom", << <<AnyStar, Lit("Famicom"), NotAhead(<<Spaces1, Alt(<< <<Lit("Disk")>>, <<Lit("&")>> >>)>>), AnyStar>>, <<AnyStar, Lit("Family Computer"), NotAhead(<<Spaces1, Lit("Disk")>>), AnyStar>> >> >>,
     <<"pcengine", << <<AnyStar, Lit("PC Engine"), NotAhead(<<Spaces1, Lit("CD")>>), AnyStar>> >> >>,
     <<"turbografx", << <<AnyStar, Lit("TurboGrafx"), AnyStar, NotAhead(<<Spaces1, Lit("CD")>>), AnyStar>> >> >> >>

\* RegionalPreferenceEngine.get_display_name: display_mapping
display_mapping ==
  << <<"3do", "3DO Interactive Multiplayer">>,
     <<"amiga", "Commodore Amiga">>,
     <<"amstradcpc", "Amstrad CPC">>,
     <<"apple2", "Apple II">>,
     <<"arcade", "Arcade (FinalBurn Neo)">>,
     <<"atari2600", "Atari 2600">>,
     <<"atari5200", "Atari 5200">>,
     <<"atari7800", "Atari 7800">>,
     <<"atari800", "Atari 8-bit Family">>,
     <<"atarijaguar", "Atari Jaguar">>,
     <<"atarijaguarcd", "Atari Jaguar CD">>,
     <<"atarilynx", "Atari Lynx">>,
     <<"atarist", "Atari ST">>,
     <<"atarixe", "Atari XE">>,
     <<"atomiswave", "Atomiswave Arcade">>,
     <<"c64", "Commodore 64">>,
     <<"cannonball", "Cannonball (OutRun Engine)">>,
     <<"coco", "TRS-80 Color Computer">>,
     <<"coleco", "ColecoVision">>,
     <<"colecovision", "ColecoVision">>,
     <<"dragon32", "Dragon Data">>,
     <<"dreamcast", "Sega Dreamcast">>,
     <<"fds", "Famicom Disk System">>,
     <<"famicom", "Nintendo Famicom">>,
     <<"gamegear", "Sega Game Gear">>,
     <<"gb", "Game Boy">>,
     <<"gba", "Game Boy Advance">>,
     <<"gbc", "Game Boy Color">>,
     <<"gc", "GameCube">>,
     <<"genesis", "Sega Genesis">>,
     <<"gizmondo", "Tiger Gizmondo">>,
     <<"intellivision", "Mattel Intellivision">>,
     <<"macintosh", "Apple Macintosh">>,
     <<"mastersystem", "Sega Master System">>,
     <<"megadrive", "Sega Mega Drive">>,
     <<"msx", "MSX">>,
     <<"n3ds", "Nintendo 3DS">>,
     <<"n64", "Nintendo 64">>,
     <<"n64dd", "Nintendo 64DD">>,
     <<"nds", "Nintendo DS">>,
     <<"neogeo", "Neo Geo">>,
     <<"neogeocd", "Neo Geo CD">>,
     <<"nes", "Nintendo Entertainment System">>,
     <<"ngp", "Neo Geo Pocket">>,
     <<"ngpc", "Neo Geo Pocket Color">>,
     <<"odyssey2", "Magnavox Odyssey 2">>,
     <<"othello", "Othello Multivision">>,
     <<"pc", "PC (IBM Compatible)">>,
     <<"pc98", "NEC PC-98">>,
     <<"pcengine", "PC Engine">>,
     <<"pcenginecd", "PC Engine CD">>,
     <<"pokemini", "Pokemon Mini">>,
     <<"pokitto", "Pokitto">>,
     <<"ps2", "PlayStation 2">>,
     <<"ps3", "PlayStation 3">>,
     <<"ps4", "PlayStation 4">>,
     <<"psp", "PlayStation Portable">>,
     <<"psvita", "PlayStation Vita">>,
     <<"psx", "PlayStation">>,
     <<"saturn", "Sega Saturn">>,
     <<"sega32x", "Sega 32X">>,
     <<"segacd", "Sega CD">>,
     <<"sfc", "Super Famicom">>,
     <<"sg1000", "Sega SG-1000">>,
     <<"snes", "Super Nintendo Entertainment System">>,
     <<"supergrafx", "PC Engine SuperGrafx">>,
     <<"supervision", "Watara Supervision">>,
     <<"trs80", "TRS-80">>,
     <<"turbografx", "TurboGrafx-16">>,
     <<"turbografxcd", "TurboGrafx-16 CD">>,
     <<"unknown", "Unknown Good Tool Collection">>,
     <<"vectrex", "GCE Vectrex">>,
     <<"virtualboy", "Virtual Boy">>,
     <<"wii", "Wii">>,
     <<"wiiu", "Wii U">>,
     <<"wonderswan", "Bandai WonderSwan">>,
     <<"wonderswancolor", "Bandai WonderSwan Color">>,
     <<"x1", "Sharp X1">>,
     <<"x68000", "Sharp X68000">>,
     <<"xbox", "Microsoft Xbox">>,
     <<"xbox360", "Microsoft Xbox 360">>,
     <<"zxspectrum", "ZX Spectrum">> >>

\* RegionalPreferenceEngine.get_display_name: consolidated_names
consolidated_names ==
  << <<"nes", "Nintendo Entertainment System (includes Famicom)">>,
     <<"snes", "Super Nintendo Entertainment System (includes Super Famicom)">>,
     <<"pcengine", "PC Engine (includes TurboGrafx-16)">> >>

(***************************************************************************)
(* Classification of a folder name.  Patterns given re.IGNORECASE are      *)
(* matched case-folded against the lower-cased name; groups are cut from   *)
(* the name as it was passed.                                              *)
(***************************************************************************)
IgnoreCaseAll(patterns) == [k \in 1..Len(patterns) |-> IgnoreCase(patterns[k])]

\* the index of the first pattern among patterns[lo..hi] that re.match
\* accepts, or 0: the loop "for pattern in ...: if re.match(...): return",
\* with the range split in two halves
RECURSIVE FirstMatchingIn(_, _, _, _)
FirstMatchingIn(patterns, s, lo, hi) ==
  IF lo > hi THEN 0
  ELSE IF lo = hi
    THEN IF re_match(patterns[lo], s) # NoMatch THEN lo ELSE 0
  ELSE LET mid   == (lo + hi) \div 2
           early == FirstMatchingIn(patterns, s, lo, mid)
       IN IF early # 0 THEN early
          ELSE FirstMatchingIn(patterns, s, mid + 1, hi)

FirstMatching(patterns, s) == FirstMatchingIn(patterns, s, 1, Len(patterns))

\* the index of the first <<platform, patterns>> pair of which some pattern
\* is found by re.search, or 0 (the patterns are case-folded)
RECURSIVE FirstFound(_, _, _)
FirstFound(table, s, k) ==
  IF k > Len(table) THEN 0
  ELSE IF \E p \in 1..Len(table[k][2]) :
            re_search(table[k][2][p], s) # NoMatch THEN k
  ELSE FirstFound(table, s, k + 1)

\* dict.get(key, default) on a sequence of <<key, value>> pairs with
\* distinct keys
Lookup(table, key, default) ==
  LET hits == { k \in 1..Len(table) : table[k][1] = key }
  IN IF hits = {} THEN default ELSE table[CHOOSE k \in hits : TRUE][2]

\* the same for a key given as a sequence of characters
LookupChars(table, key, default) ==
  LET hits == { k \in 1..Len(table) : Chars(table[k][1]) = key }
  IN IF hits = {} THEN default ELSE table[CHOOSE k \in hits : TRUE][2]

ExclusionPatterns == IgnoreCaseAll(EXCLUDED_PLATFORMS)

\* PlatformAnalyzer._check_exclusions: the index of the exclusion that
\* applies, 0 for None
check_exclusions(folder_name) ==
  FirstMatching(ExclusionPatterns, Lower(folder_name))

GoodPatternFolded == IgnoreCase(GoodPattern)

FinalBurnPatternFolded == IgnoreCase(FinalBurnPattern)

MamePatternFolded == IgnoreCase(MamePattern)

\* GoodPatternHandler.match_good_pattern: the shortcode, or None
GoodShortcode(folder_name, good_match) ==
  IF good_match = NoMatch THEN None
  ELSE LookupChars(GOOD_TOOL_MAPPINGS, Upper(Group1(folder_name, good_match)),
                   "unknown")

match_good_pattern(folder_name) ==
  GoodShortcode(folder_name, re_match(GoodPatternFolded, Lower(folder_name)))

\* MAMEPatternHandler.match_finalburn_pattern: the shortcode, or None
FinalBurnShortcode(folder_name, fb_match) ==
  IF fb_match = NoMatch THEN None
  ELSE LookupChars(FINALBURN_MAPPINGS, Group1(folder_name, fb_match), "arcade")

match_finalburn_pattern(folder_name) ==
  FinalBurnShortcode(folder_name,
                     re_match(FinalBurnPatternFolded, Lower(folder_name)))

\* MAMEPatternHandler.match_mame_pattern: the shortcode, or None
match_mame_pattern(folder_name) ==
  IF re_match(MamePatternFolded, Lower(folder_name)) # NoMatch
    THEN "arcade" ELSE None

Specialized(shortcode, handler_used) ==
  [shortcode |-> shortcode, handler_used |-> handler_used]

\* SpecializedPatternProcessor.process: the first handler with a result
FirstHandler(good, finalburn, mame) ==
  IF good # None THEN Specialized(good, "good_tools")
  ELSE IF finalburn # None THEN Specialized(finalburn, "finalburn_neo")
  ELSE IF mame # None THEN Specialized(mame, "mame")
  ELSE Specialized(None, None)

specialized_process(folder_name) ==
  FirstHandler(match_good_pattern(folder_name),
               match_finalburn_pattern(folder_name),
               match_mame_pattern(folder_name))

SubcategoryPatterns == IgnoreCaseAll(subcategory_patterns)

\* SubcategoryConsolidationHandler.handle, up to the hand-over to the next
\* handler: group 1 of the first pattern that matches, stripped
BasePlatform(patterns, folder_name, k) ==
  IF k = 0 THEN folder_name
  ELSE Strip(Group1(folder_name, re_match(patterns[k], Lower(folder_name))))

subcategory_handle(folder_name) ==
  BasePlatform(SubcategoryPatterns, folder_name,
               FirstMatching(SubcategoryPatterns, Lower(folder_name)))

\* FormatIndicatorHandler.handle: the loop over format_patterns
Stripped(processed_name, new_name) ==
  IF new_name # processed_name THEN Strip(new_name) ELSE processed_name

RECURSIVE format_handle(_, _)
format_handle(processed_name, k) ==
  IF k > Len(format_patterns) THEN processed_name
  ELSE format_handle(Stripped(processed_name,
                              re_sub_empty(format_patterns[k], processed_name, 1)),
                     k + 1)

PublisherPatterns == IgnoreCaseAll(publisher_patterns)

\* PublisherDisambiguationHandler.handle: the pattern spans the whole name,
\* which re.sub replaces by group 1
Replaced(patterns, folder_name, k) ==
  IF k = 0 THEN folder_name
  ELSE Group1(folder_name, re_match(patterns[k], Lower(folder_name)))

publisher_handle(folder_name) ==
  Replaced(PublisherPatterns, folder_name,
           FirstMatching(PublisherPatterns, Lower(folder_name)))

\* SubcategoryProcessor.process: the chain of the three handlers
subcategory_processor_process(folder_name) ==
  publisher_handle(format_handle(subcategory_handle(folder_name), 1))

RegionalModes == {"consolidated", "regional"}

IgnoreCaseTable(table) ==
  [k \in 1..Len(table) |-> <<table[k][1], IgnoreCaseAll(table[k][2])>>]

AlwaysSeparatePatterns == IgnoreCaseTable(always_separate)

RegionalPatterns == IgnoreCaseTable(regional_mappings)

\* the platform of the pair of the table that was found, or another one
TargetOf(table, k, otherwise) == IF k = 0 THEN otherwise ELSE table[k][1]

\* RegionalPreferenceEngine._apply_regional_separation
apply_regional_separation(folder_name, detected_platform) ==
  TargetOf(regional_mappings,
           FirstFound(RegionalPatterns, Lower(folder_name), 1),
           detected_platform)

\* RegionalPreferenceEngine.get_target_platform
get_target_platform(regional_mode, folder_name, detected_platform) ==
  TargetOf(always_separate,
           FirstFound(AlwaysSeparatePatterns, Lower(folder_name), 1),
           IF regional_mode = "regional"
             THEN apply_regional_separation(folder_name, detected_platform)
             ELSE detected_platform)

\* RegionalPreferenceEngine.get_display_name
get_display_name(regional_mode, platform) ==
  IF regional_mode = "consolidated"
    THEN Lookup(consolidated_names, platform,
                Lookup(display_mapping, platform, platform))
    ELSE Lookup(display_mapping, platform, platform)

FoldedPatterns(table) == [k \in 1..Len(table) |-> IgnoreCase(table[k].pattern)]

CatalogPatterns == FoldedPatterns(PLATFORM_MAPPINGS)

Identified(shortcode, display_name) ==
  [shortcode |-> shortcode, display_name |-> display_name]

\* what a stage of _identify_platform matched: the name the regional engine
\* is given and the shortcode of the matcher
Matched(name, shortcode) == [name |-> name, shortcode |-> shortcode]

NothingMatched == Matched(None, None)

\* STEP 3: the loop over PLATFORM_MAPPINGS on the processed name
CatalogEntry(processed_name, pattern_index) ==
  IF pattern_index = 0 THEN NothingMatched
  ELSE Matched(processed_name, PLATFORM_MAPPINGS[pattern_index].shortcode)

RegularPattern(processed_name) ==
  CatalogEntry(processed_name,
               FirstMatching(CatalogPatterns, Lower(processed_name)))

\* STEP 1, and STEP 2 and 3 when no specialized pattern matched
FirstStage(enable_subcategory_processing, folder_name, specialized_result) ==
  IF specialized_result # None THEN Matched(folder_name, specialized_result)
  ELSE RegularPattern(IF enable_subcategory_processing
                        THEN subcategory_processor_process(folder_name)
                        ELSE folder_name)

WithDisplayName(regional_mode, final_platform) ==
  Identified(final_platform, get_display_name(regional_mode, final_platform))

\* the regional preference logic applied to what matched
Resolved(regional_mode, matched) ==
  IF matched.shortcode = None THEN Identified(None, None)
  ELSE WithDisplayName(regional_mode,
         get_target_platform(regional_mode, matched.name, matched.shortcode))

\* PlatformAnalyzer._identify_platform; Identified(None, None) models None
identify_platform(regional_mode, enable_subcategory_processing, folder_name) ==
  Resolved(regional_mode,
           FirstStage(enable_subcategory_processing, folder_name,
                      specialized_process(folder_name).shortcode))

Scanned(class, shortcode, display_name) ==
  [class |-> class, shortcode |-> shortcode, display_name |-> display_name]

\* the platform map or the unknown list, by the result of _identify_platform
Recorded(platform_result) ==
  IF platform_result.shortcode # None
    THEN Scanned("platform", platform_result.shortcode,
                 platform_result.display_name)
    ELSE Scanned("unknown", None, None)

\* analyze_folder with the exclusions consulted only for a folder that no
\* platform was identified for
analyze_folder_identify_first(regional_mode, enable_subcategory_processing, folder_name) ==
  LET recorded == Recorded(identify_platform(regional_mode,
                                             enable_subcategory_processing,
                                             folder_name))
  IN IF recorded.class = "unknown" /\ check_exclusions(folder_name) # 0
       THEN Scanned("excluded", None, None) ELSE recorded

\* PlatformAnalyzer.analyze_directory: what the loop does with one folder
\* that holds ROM files
analyze_folder(regional_mode, enable_subcategory_processing, folder_name) ==
  IF check_exclusions(folder_name) # 0
    THEN Scanned("excluded", None, None)
  ELSE Recorded(identify_platform(regional_mode,
                                  enable_subcategory_processing, folder_name))


(***************************************************************************)
(* The scan classifies one folder: a folder name as DAT collections and    *)
(* ROM managers write them, followed by up to MaxDecorations of the usual  *)
(* suffixes, under either regional mode, with the subcategory              *)
(* preprocessing enabled or disabled                                       *)
(***************************************************************************)
MaxDecorations == 1

BaseNames ==
  << "Philips - Videopac+", "Sharp X68000", "Pokitto", "MAME TRS-80",
     "GoodPokitto", "FinalBurn Neo - Pokitto",
     "GoodNES", "GoodGen", "GoodXYZ",
     "FinalBurn Neo - NES Games", "FinalBurn Neo - Unknown",
     "finalburn neo - nes games", "MAME",
     "Nintendo - Nintendo Entertainment System", "Nintendo - Famicom",
     "Nintendo - Super Famicom", "Nintendo - Game Boy",
     "Nintendo - Super Nintendo Entertainment System (Parent-Clone) (Retool)",
     "Sega - Mega Drive - Genesis", "Sega - Mega-CD", "NEC - PC Engine",
     "Sega Mega Drive & Genesis", "Coleco ColecoVision",
     "Atari 8bit", "Microsoft - MSX", "Unknown System", "Casio - Loopy" >>

Decorations == << " (Retool)", " - Games", " - [CD]", " CD" >>

RECURSIVE Decorated(_, _)
Decorated(name, n) ==
  IF n = 0 THEN {name}
  ELSE Decorated(name, n - 1)
         \cup { d \o Chars(Decorations[k]) :
                  d \in Decorated(name, n - 1), k \in 1..Len(Decorations) }

ScanNames ==
  UNION { Decorated(Chars(BaseNames[k]), MaxDecorations) :
            k \in 1..Len(BaseNames) }

ClassifyArgs ==
  [folder_name : ScanNames, regional_mode : RegionalModes,
   enable_subcategory_processing : BOOLEAN]

Unscanned == Scanned("pending", None, None)

InitClassify == Idle /\ args \in ClassifyArgs /\ result = Unscanned

AnalyzeFolder ==
  /\ result = Unscanned
  /\ result' = analyze_folder(args.regional_mode,
                              args.enable_subcategory_processing,
                              args.folder_name)
  /\ UNCHANGED <<args, engine>>

SpecClassify == InitClassify /\ [][AnalyzeFolder]_vars

C11_AlwaysSeparateKept ==
  LET k == FirstFound(AlwaysSeparatePatterns, Lower(args.folder_name), 1)
  IN result # Unscanned /\ result.class = "platform" /\ k # 0
       => result.shortcode = always_separate[k][1]

\* C12: a folder named Good<tag>, the tag one of the Good-tools vocabulary
\* and followed by nothing or by version text, is classified to the platform
\* mapped to the tag (the folder is not excluded and the regional resolver
\* leaves the code alone)
C12_GoodTagsClassified ==
  \A k \in 1..Len(GOOD_TOOL_MAPPINGS) :
    LET raw    == args.folder_name
        prefix == Chars("Good") \o Chars(GOOD_TOOL_MAPPINGS[k][1])
        code   == GOOD_TOOL_MAPPINGS[k][2]
    IN /\ result # Unscanned /\ result.class # "excluded"
       /\ HasPrefixAt(raw, 1, prefix) /\ ~IsWordAt(raw, Len(prefix) + 1)
       /\ get_target_platform(args.regional_mode, raw, code) = code
       => result.class = "platform" /\ result.shortcode = code

\* C13: the folder "Nintendo - Super Nintendo Entertainment System
\* (Parent-Clone) (Retool)" is classified to snes with the display name
\* "Super Nintendo Entertainment System", under either policy
C13_SnesDisplayName ==
  /\ result # Unscanned
  /\ args.folder_name =
       Chars("Nintendo - Super Nintendo Entertainment System (Parent-Clone) (Retool)")
  => /\ result.class = "platform"
     /\ result.shortcode = "snes"
     /\ result.display_name = "Super Nintendo Entertainment System"

(***************************************************************************)
(* The target layout, and a batch of get_unique_target_path calls against  *)
(* one set of claimed paths: the caller adds the path returned to the set  *)
(* before it resolves the next file.                                       *)
(***************************************************************************)
\* "marker in folder_lower"
Contains(s, marker) == \E i \in 1..Len(s) : HasPrefixAt(s, i, marker)

\* FormatHandler.detect_n64_format
detect_n64_format(folder_name) ==
  IF Contains(Lower(folder_name), Chars("bigendian")) THEN "bigendian"
  ELSE IF Contains(Lower(folder_name), Chars("byteswapped")) THEN "byteswapped"
  ELSE "standard"

\* FormatHandler.detect_nds_format
detect_nds_format(folder_name) ==
  IF Contains(Lower(folder_name), Chars("encrypted")) THEN "encrypted"
  ELSE IF Contains(Lower(folder_name), Chars("decrypted")) THEN "decrypted"
  ELSE "standard"

\* FormatHandler.get_target_path: the directories below target_base
get_target_path(platform, source_folder) ==
  IF platform = "n64" THEN <<platform, detect_n64_format(source_folder)>>
  ELSE IF platform = "nds" THEN <<platform, detect_nds_format(source_folder)>>
  ELSE <<platform>>

\* the directories below target_dir of target_dir / platform / name
Parent(p) == <<p.platform>>

\* the bound of the model: how many files a batch resolves
MaxBatch == 3

\* source folders of a batch and the platform code of each
BatchFolders ==
  << <<Chars("NES-A"), "nes">>, <<Chars("Nintendo"), "nes">>,
     <<Chars("N64 BigEndian"), "n64">>, <<Chars("NDS Decrypted"), "nds">> >>

BatchContents == {"X", "Y"}

GamePath(tag) ==
  TargetPath("nes", IF tag = <<>> THEN GameRom.stem \o GameRom.ext
                    ELSE UniqueName(GameRom.stem, tag, GameRom.ext))

\* the target holds "g.r"
OneDisk == [p \in {GamePath(<<>>)} |-> "X"]

\* the target holds "g.r", "g (A).r" and "g (2).r" to "g (99).r"
FullDisk ==
  [p \in {GamePath(<<>>), GamePath(<<"A">>)}
           \cup {GamePath(Str(n)) : n \in 2..(CounterLimit - 1)} |-> "X"]

\* the target holds "g (A).r" and "g (2).r" to "g (99).r", but not "g.r"
NumberedDisk == [p \in DOMAIN FullDisk \ {GamePath(<<>>)} |-> "X"]

BatchDisks == {EmptyDisk, OneDisk, FullDisk, NumberedDisk}

NotResolved == Resolution(NoPath, "pending", <<>>)

UniqueArgs(call_no, existing_paths, returned, folder, content, srcHashOk, tgtHashOk) ==
  [call_no |-> call_no, existing_paths |-> existing_paths,
   returned |-> returned,
   source_folder_name |-> BatchFolders[folder][1],
   platform |-> BatchFolders[folder][2],
   file |-> SourceFile(folder, GameRom, content),
   srcHashOk |-> srcHashOk, tgtHashOk |-> tgtHashOk]

FirstUniqueArgs ==
  { UniqueArgs(1, {}, <<>>, folder, content, srcHashOk, tgtHashOk) :
      folder \in 1..Len(BatchFolders), content \in BatchContents,
      srcHashOk \in BOOLEAN, tgtHashOk \in BOOLEAN }

InitBatch ==
  /\ mode = "none" /\ dry_run = FALSE /\ tree = <<>> /\ disk \in BatchDisks
  /\ dirs = {} /\ shutdown = FALSE /\ run = 0 /\ units = <<>>
  /\ stats = ZeroStats /\ aborted = FALSE /\ faults = 0 /\ first = NoFirst
  /\ args \in FirstUniqueArgs /\ result = NotResolved

\* the call of get_unique_target_path for the file at hand
ResolveTarget ==
  /\ result = NotResolved
  /\ result' = get_unique_target_path(disk, args.file, args.platform,
                                      args.source_folder_name,
                                      args.existing_paths,
                                      args.srcHashOk, args.tgtHashOk)
  /\ UNCHANGED <<args, engine>>

\* target_paths_in_batch.add(str(target_file_path)), and the next file
ClaimTarget ==
  /\ result # NotResolved
  /\ args.call_no < MaxBatch
  /\ \E folder \in 1..Len(BatchFolders), content \in BatchContents,
        srcHashOk \in BOOLEAN, tgtHashOk \in BOOLEAN :
       args' = UniqueArgs(args.call_no + 1,
                          args.existing_paths \cup {result.path},
                          Append(args.returned, result),
                          folder, content, srcHashOk, tgtHashOk)
  /\ result' = NotResolved
  /\ UNCHANGED engine

NextBatch == ResolveTarget \/ ClaimTarget

SpecBatch == InitBatch /\ [][NextBatch]_vars

\* C14: a file of platform n64 or nds is given a target below
\* <platform>/<subformat>, the subformat detected from the source folder
\* name; a file of another platform a target below <platform>
C14_TargetLayout ==
  result # NotResolved
    => Parent(result.path) = get_target_path(args.platform,
                                             args.source_folder_name)

(***************************************************************************)
(* AsyncFileCopyEngine: the detection of the environment, the strategy     *)
(* selected by the constructor and the processing path that                *)
(* copy_files_adaptive takes.  /proc/version is "missing", unreadable      *)
(* ("error") or read with or without the word microsoft in it.             *)
(***************************************************************************)
Systems == {"Windows", "Linux", "Darwin"}

ProcVersions == {"missing", "error", "microsoft", "generic"}

\* the keys of files_by_folder: the parent directories of the files
FolderPaths ==
  { Chars("/mnt/c/roms/NES"), Chars("/mnt/d/roms/SNES"),
    Chars("/home/u/roms/NES"), Chars("/srv/roms/SNES") }

\* AsyncFileCopyEngine._detect_wsl2
detect_wsl2(system, proc_version) ==
  IF system = "Windows" THEN FALSE
  ELSE proc_version = "microsoft"

\* AsyncFileCopyEngine._is_windows_mount
is_windows_mount(path) == HasPrefixAt(path, 1, Chars("/mnt/"))

\* delays are in tenths of a second
Strategy(name, max_workers, max_attempts, base_delay, exponential_base, jitter) ==
  [name |-> name, max_workers |-> max_workers, max_attempts |-> max_attempts,
   base_delay |-> base_delay, exponential_base |-> exponential_base,
   jitter |-> jitter]

NoStrategy == Strategy("", 0, 0, 0, 0, FALSE)

\* AsyncFileCopyEngine._select_strategy
select_strategy(is_wsl2) ==
  IF is_wsl2 THEN Strategy("WSL2SingleThreadStrategy", 1, 2, 10, 3, TRUE)
  ELSE Strategy("HighConcurrencyStrategy", 8, 3, 1, 2, FALSE)

\* copy_files_adaptive: the processing path by self.max_workers
adaptive_path(max_workers) ==
  IF max_workers = 1 THEN "single" ELSE "conc"

StrategyArgs ==
  [system : Systems, proc_version : ProcVersions,
   files_by_folder : (SUBSET FolderPaths) \ {{}}]

CopyEngine(pc, is_wsl2, strategy, path, attempts, slept) ==
  [pc |-> pc, is_wsl2 |-> is_wsl2, strategy |-> strategy, path |-> path,
   attempts |-> attempts, slept |-> slept]

InitStrategy ==
  /\ Idle /\ args \in StrategyArgs
  /\ result = CopyEngine("new", FALSE, NoStrategy, "", 0, <<>>)

\* __init__: self.is_wsl2 = self._detect_wsl2()
DetectWsl2 ==
  /\ result.pc = "new"
  /\ result' = [result EXCEPT !.pc = "detected",
                  !.is_wsl2 = detect_wsl2(args.system, args.proc_version)]
  /\ UNCHANGED <<args, engine>>

\* __init__: self.strategy = self._select_strategy()
SelectStrategy ==
  /\ result.pc = "detected"
  /\ result' = [result EXCEPT !.pc = "selected",
                  !.strategy = select_strategy(result.is_wsl2)]
  /\ UNCHANGED <<args, engine>>

CopyFilesAdaptive ==
  /\ result.pc = "selected"
  /\ result' = [result EXCEPT !.pc = "copying",
                  !.path = adaptive_path(result.strategy.max_workers)]
  /\ UNCHANGED <<args, engine>>

\* 2 ** attempt
RECURSIVE Pow2(_)
Pow2(n) == IF n = 0 THEN 1 ELSE 2 * Pow2(n - 1)

\* _copy_with_retry, called with its default max_retries: one round of the
\* loop for a file of the run; delay = 0.1 * (2 ** attempt), in tenths
copy_with_retry_round(engine_state, success) ==
  IF success
    THEN [engine_state EXCEPT !.pc = "copied", !.attempts = @ + 1]
  ELSE IF engine_state.attempts < MaxRetries - 1
    THEN [engine_state EXCEPT !.attempts = @ + 1,
            !.slept = Append(@, Pow2(engine_state.attempts))]
  ELSE [engine_state EXCEPT !.pc = "failed", !.attempts = @ + 1]

CopyWithRetry ==
  /\ result.pc = "copying"
  /\ \E success \in BOOLEAN :
       result' = copy_with_retry_round(result, success)
  /\ UNCHANGED <<args, engine>>

NextStrategy ==
  DetectWsl2 \/ SelectStrategy \/ CopyFilesAdaptive \/ CopyWithRetry

SpecStrategy == InitStrategy /\ [][NextStrategy]_vars

\* C15: the conservative strategy is selected exactly when the process runs
\* under the Linux layer of a Windows host and the folders to copy lie
\* under the translated mount /mnt/; in every other case the multi-worker
\* strategy is selected
C15_ConservativeOnlyOnMount ==
  LET virtualized == args.system = "Linux" /\ args.proc_version = "microsoft"
      some_mount  == \E f \in args.files_by_folder : is_windows_mount(f)
      all_mount   == \A f \in args.files_by_folder : is_windows_mount(f)
      conservative == /\ result.strategy.name = "WSL2SingleThreadStrategy"
                      /\ result.strategy.max_workers \in {1, 2}
  IN result.pc \in {"selected", "copying"}
       => /\ conservative => virtualized /\ some_mount
          /\ virtualized /\ all_mount => conservative
          /\ ~conservative
               => /\ result.strategy.name = "HighConcurrencyStrategy"
                  /\ result.strategy.max_workers > 2

(***************************************************************************)
(* PlatformAnalyzer.analyze_directory: the scan of the top-level           *)
(* directories of the source.  A directory has a name, the names of its    *)
(* files and its subdirectories; iterdir() lists the top-level directories *)
(* in any order.                                                           *)
(***************************************************************************)
\* some of the extensions of ROM_EXTENSIONS
ROM_EXTENSIONS == { Chars(".nes"), Chars(".zip") }

Directory(name, files, subs) == [name |-> name, files |-> files, subs |-> subs]

\* Path(file).suffix: from the last dot, unless the name starts or ends there
Suffix(file) ==
  LET dots == { i \in 1..Len(file) : file[i] = "." }
      last == CHOOSE i \in dots : \A j \in dots : j <= i
  IN IF dots = {} THEN <<>>
     ELSE IF last = 1 \/ last = Len(file) THEN <<>>
     ELSE SubSeq(file, last, Len(file))

IsRomFile(file) == Lower(Suffix(file)) \in ROM_EXTENSIONS

\* analyze_directory counting the files of the top-level directory only
rom_files_of_top_level(dir) == SelectSeq(dir.files, IsRomFile)

\* the loop over os.walk(platform_dir): the ROM files of a directory and of
\* every directory below it
RECURSIVE RomFilesBelow(_, _)
RECURSIVE rom_files_of(_)
RomFilesBelow(subs, k) ==
  IF k > Len(subs) THEN <<>>
  ELSE rom_files_of(subs[k]) \o RomFilesBelow(subs, k + 1)

rom_files_of(dir) ==
  SelectSeq(dir.files, IsRomFile) \o RomFilesBelow(dir.subs, 1)

\* the bound of the model: how many top-level directories the source holds
MaxDirs == 2

DirectoryNames ==
  { Chars("MAME"), Chars("FinalBurn Neo - Unknown"), Chars("Pokitto"),
    Chars("Casio - Loopy") }

NoSubs == <<>>

\* a flat directory, one without ROM files, and one with ROM files one and
\* two levels below it
DirectoryShapes ==
  { [files |-> <<Chars("a.nes")>>, subs |-> NoSubs],
    [files |-> <<Chars("readme"), Chars(".nes")>>, subs |-> NoSubs],
    [files |-> <<Chars("a.NES"), Chars("r.txt")>>,
     subs  |-> << Directory(Chars("sub"), <<Chars("b.zip")>>,
                    << Directory(Chars("deep"), <<Chars("c.zip")>>, NoSubs) >>) >>] }

Directories ==
  { Directory(n, s.files, s.subs) : n \in DirectoryNames, s \in DirectoryShapes }

\* lists of top-level directories with distinct names
Sources ==
  { src \in UNION { [1..n -> Directories] : n \in 1..MaxDirs } :
      \A i, j \in 1..Len(src) : i # j => src[i].name # src[j].name }

\* target_dir is the index of the top-level directory that is the target,
\* 0 when the target lies outside the source
ScanArgs ==
  { [source |-> src, regional_mode |-> regional_mode,
     include_empty_dirs |-> include_empty_dirs, target_dir |-> target_dir] :
      src \in Sources, regional_mode \in RegionalModes,
      include_empty_dirs \in BOOLEAN, target_dir \in {0, 1} }

PlatformInfo(shortcode, display_name, folder_count, file_count, source_folders) ==
  [shortcode |-> shortcode, display_name |-> display_name,
   folder_count |-> folder_count, file_count |-> file_count,
   source_folders |-> source_folders]

NoPlatforms == [s \in {} |-> PlatformInfo("", "", 0, 0, <<>>)]

NoExcluded == [n \in {} |-> 0]

DirectoryStats(total_processed, directories_with_roms, empty_directories, target_directories_skipped) ==
  [total_processed |-> total_processed,
   directories_with_roms |-> directories_with_roms,
   empty_directories |-> empty_directories,
   target_directories_skipped |-> target_directories_skipped]

Scan(idx, platforms, excluded, unknown, directory_stats) ==
  [idx |-> idx, platforms |-> platforms, excluded |-> excluded,
   unknown |-> unknown, directory_stats |-> directory_stats]

\* platforms[shortcode] as it is, or the fresh record
Current(platforms, scanned) ==
  IF scanned.shortcode \in DOMAIN platforms THEN platforms[scanned.shortcode]
  ELSE PlatformInfo(scanned.shortcode, scanned.display_name, 0, 0, <<>>)

\* "Update platform info"
Updated(current, platform_dir, file_count) ==
  PlatformInfo(current.shortcode, current.display_name,
               current.folder_count + 1, current.file_count + file_count,
               Append(current.source_folders, platform_dir.name))

WithPlatform(platforms, info) ==
  [s \in DOMAIN platforms \cup {info.shortcode} |->
     IF s = info.shortcode THEN info ELSE platforms[s]]

WithExcluded(excluded, folder_name, file_count) ==
  [n \in DOMAIN excluded \cup {folder_name} |->
     IF n = folder_name THEN file_count ELSE excluded[n]]

\* directories_processed += 1 and directories_skipped_target += 1
SkippedTarget(d) ==
  DirectoryStats(d.total_processed + 1, d.directories_with_roms,
                 d.empty_directories, d.target_directories_skipped + 1)

\* directories_processed += 1 and directories_skipped_roms += 1
SkippedRoms(d) ==
  DirectoryStats(d.total_processed + 1, d.directories_with_roms,
                 d.empty_directories + 1, d.target_directories_skipped)

\* directories_processed += 1, and directories_with_roms += 1 "if rom_files"
Kept(d, file_count) ==
  DirectoryStats(d.total_processed + 1,
                 d.directories_with_roms + (IF file_count > 0 THEN 1 ELSE 0),
                 d.empty_directories, d.target_directories_skipped)

\* what the loop does with a directory that was not skipped
Categorized(scan, platform_dir, file_count, scanned) ==
  IF scanned.class = "excluded"
    THEN Scan(scan.idx + 1, scan.platforms,
              WithExcluded(scan.excluded, platform_dir.name, file_count),
              scan.unknown, Kept(scan.directory_stats, file_count))
  ELSE IF scanned.class = "platform"
    THEN Scan(scan.idx + 1,
              WithPlatform(scan.platforms,
                           Updated(Current(scan.platforms, scanned),
                                   platform_dir, file_count)),
              scan.excluded, scan.unknown,
              Kept(scan.directory_stats, file_count))
  ELSE Scan(scan.idx + 1, scan.platforms, scan.excluded,
            Append(scan.unknown, platform_dir.name),
            Kept(scan.directory_stats, file_count))

\* analyze_directory with the skipped target directory left out of the
\* statistics
analyze_directory_step_target_uncounted(a, scan, platform_dir, file_count) ==
  IF a.target_dir = scan.idx
    THEN Scan(scan.idx + 1, scan.platforms, scan.excluded, scan.unknown,
              Kept(scan.directory_stats, 0))
  ELSE IF file_count = 0 /\ ~a.include_empty_dirs
    THEN Scan(scan.idx + 1, scan.platforms, scan.excluded, scan.unknown,
              SkippedRoms(scan.directory_stats))
  ELSE Categorized(scan, platform_dir, file_count,
                   analyze_folder(a.regional_mode, TRUE, platform_dir.name))

\* one round of the loop over top_level_dirs
analyze_directory_step(a, scan, platform_dir, file_count) ==
  IF a.target_dir = scan.idx
    THEN Scan(scan.idx + 1, scan.platforms, scan.excluded, scan.unknown,
              SkippedTarget(scan.directory_stats))
  ELSE IF file_count = 0 /\ ~a.include_empty_dirs
    THEN Scan(scan.idx + 1, scan.platforms, scan.excluded, scan.unknown,
              SkippedRoms(scan.directory_stats))
  ELSE Categorized(scan, platform_dir, file_count,
                   analyze_folder(a.regional_mode, TRUE, platform_dir.name))

InitScan ==
  /\ Idle /\ args \in ScanArgs
  /\ result = Scan(1, NoPlatforms, NoExcluded, <<>>, DirectoryStats(0, 0, 0, 0))

AnalyzeDirectory ==
  /\ result.idx <= Len(args.source)
  /\ result' = analyze_directory_step(args, result, args.source[result.idx],
                                      Len(rom_files_of(args.source[result.idx])))
  /\ UNCHANGED <<args, engine>>

SpecScan == InitScan /\ [][AnalyzeDirectory]_vars

ScanDone == result.idx > Len(args.source)

\* the number of files with a recognized extension in a directory and
\* below it
RECURSIVE RecognizedBelow(_, _)
RECURSIVE Recognized(_)
RecognizedBelow(subs, k) ==
  IF k = 0 THEN 0 ELSE Recognized(subs[k]) + RecognizedBelow(subs, k - 1)

Recognized(dir) ==
  Cardinality({ i \in 1..Len(dir.files) : IsRomFile(dir.files[i]) })
    + RecognizedBelow(dir.subs, Len(dir.subs))

TopLevel(name) ==
  CHOOSE d \in { args.source[i] : i \in 1..Len(args.source) } : d.name = name

RECURSIVE RecognizedIn(_, _)
RecognizedIn(source_folders, k) ==
  IF k = 0 THEN 0
  ELSE Recognized(TopLevel(source_folders[k]))
         + RecognizedIn(source_folders, k - 1)

\* the top-level directories the scan matches to a platform
MatchedDirs ==
  { i \in 1..Len(args.source) :
      /\ i # args.target_dir
      /\ args.include_empty_dirs \/ Recognized(args.source[i]) > 0
      /\ analyze_folder(args.regional_mode, TRUE,
                        args.source[i].name).class = "platform" }

Entries(p, name) ==
  { k \in 1..Len(p.source_folders) : p.source_folders[k] = name }

\* C16: in every platform record folder_count is the length of
\* source_folders and file_count the number of files with a recognized
\* extension in and below its source folders; after the scan every matched
\* top-level directory is listed once, in the source_folders of one record
C16_RecordsConsistent ==
  /\ \A s \in DOMAIN result.platforms :
       LET p == result.platforms[s]
       IN /\ p.shortcode = s
          /\ p.folder_count = Len(p.source_folders)
          /\ p.file_count = RecognizedIn(p.source_folders, Len(p.source_folders))
  /\ ScanDone =>
       \A i \in MatchedDirs :
         /\ Cardinality({ s \in DOMAIN result.platforms :
              Entries(result.platforms[s], args.source[i].name) # {} }) = 1
         /\ \A s \in DOMAIN result.platforms :
              Cardinality(Entries(result.platforms[s], args.source[i].name)) <= 1

\* two top-level directories were merged in one record, one of them with
\* ROM files in nested directories
C16_Witness ==
  /\ ScanDone
  /\ \E s \in DOMAIN result.platforms :
       /\ result.platforms[s].folder_count = 2
       /\ result.platforms[s].file_count = 4
       /\ \E k \in 1..2 :
            TopLevel(result.platforms[s].source_folders[k]).subs # <<>>

\* the subdirectories of a top-level directory that hold ROM files
NestedWithRoms(dir) ==
  { k \in 1..Len(dir.subs) : Recognized(dir.subs[k]) > 0 }

\* C17: the record of a platform whose top-level directory has nested
\* subdirectories with ROM files lists those subdirectories besides the
\* top-level directory, so it has more than one entry
C17_NestedFoldersListed ==
  ScanDone =>
    \A s \in DOMAIN result.platforms :
      LET p == result.platforms[s]
      IN \A k \in 1..Len(p.source_folders) :
           LET dir == TopLevel(p.source_folders[k])
           IN \A n \in NestedWithRoms(dir) :
                /\ Len(p.source_folders) > 1
                /\ \E e \in 1..Len(p.source_folders) :
                     p.source_folders[e] = dir.name \o <<"/">> \o dir.subs[n].name

\* C18: two workers that process source folders of the same platform code
\* never hold the same target path for two different source files: no
\* worker copies to, or has just written, the path another worker copies to
C18_NoSharedTargetPath ==
  \A u, v \in DOMAIN units :
    /\ u # v
    /\ units[u].pc \in {"copy", "verify"} /\ units[v].pc \in {"copy", "verify"}
    /\ CurFile(u) # CurFile(v)
    => units[u].tgt # units[v].tgt

\* the reasons with which get_unique_target_path hands out a new path
CopyReasons == {"none", "renamed_with_hint", "renamed_with_number"}

\* the callers go on to copy every file but one resolved as skip_identical
ToBeCopied(r) == r.reason # "skip_identical"

\* C19: in a batch in which every returned path is added to the claimed
\* set before the next call, a path returned with reason None,
\* renamed_with_hint or renamed_with_number is neither in the set nor on
\* disk when it is returned; hence no two files of the batch that are to be
\* copied receive the same target path
C19_ReturnedPathIsFresh ==
  result # NotResolved
    => /\ result.reason \in CopyReasons
            => /\ result.path \notin args.existing_paths
               /\ ~Exists(disk, result.path)
       /\ ToBeCopied(result)
            => \A k \in 1..Len(args.returned) :
                 ToBeCopied(args.returned[k])
                   => args.returned[k].path # result.path

\* C20: get_unique_target_path returns the first outcome that applies: the
\* base path when it is unclaimed and absent; skip_identical when the base
\* path is on disk and both digests were computed and are equal;
\* "stem (hint).ext" when a hint is extracted and that path is unclaimed and
\* absent; "stem (n).ext" for the smallest n of 2..99 that is unclaimed and
\* absent; error_too_many_duplicates when there is no such n
C20_FirstApplicableOutcome ==
  LET stem      == args.file.stem
      ext       == args.file.ext
      named(nm) == [platform |-> args.platform, name |-> nm]
      tagged(t) == named(stem \o <<" ", "(">> \o t \o <<")">> \o ext)
      free(p)   == p \notin args.existing_paths /\ p \notin DOMAIN disk
      base      == named(stem \o ext)
      identical == /\ base \in DOMAIN disk
                   /\ args.srcHashOk /\ args.tgtHashOk
                   /\ Sha1(args.file.content) = Sha1(disk[base])
      hint      == extract_folder_hint(args.source_folder_name)
      hinted    == hint # NoHint /\ free(tagged(hint))
      numbers   == { n \in 2..99 : free(tagged(Str(n))) }
  IN result # NotResolved
       => IF free(base)
            THEN result.path = base /\ result.reason = "none"
          ELSE IF identical
            THEN result.path = base /\ result.reason = "skip_identical"
          ELSE IF hinted
            THEN /\ result.path = tagged(hint)
                 /\ result.reason = "renamed_with_hint" /\ result.detail = hint
          ELSE IF numbers # {}
            THEN /\ \E n \in numbers :
                      /\ \A m \in numbers : n <= m
                      /\ result.path = tagged(Str(n))
                      /\ result.detail = Str(n)
                 /\ result.reason = "renamed_with_number"
          ELSE /\ result.reason = "error_too_many_duplicates"
               /\ result.path = base

\* with "g.r" on disk, the hint path and "g (2).r" claimed, a file of a
\* folder with a hint is named "g (3).r"
C20_Witness ==
  /\ disk = OneDisk
  /\ extract_folder_hint(args.source_folder_name) # NoHint
  /\ result.reason = "renamed_with_number" /\ result.detail = Str(3)

(***************************************************************************)
(* The copy phase against a target in which every name that                *)
(* get_unique_target_path can give to "g.r" is taken by another file.      *)
(***************************************************************************)
OccupiedNames ==
  {GamePath(<<>>)}
    \cup {GamePath(extract_folder_hint(FolderNames[f])) : f \in 1..NumFolders}
    \cup {GamePath(Str(n)) : n \in 2..(CounterLimit - 1)}

OccupiedDisk == [p \in OccupiedNames |-> "W"]

InitOccupied ==
  /\ mode \in Modes
  /\ dry_run \in BOOLEAN
  /\ tree \in { t \in Trees : t[1].files[1].content = "X" /\ t[2].files[1].content = "Y" }
  /\ disk = OccupiedDisk
  /\ dirs = {"nes"}
  /\ shutdown = FALSE
  /\ run = 1
  /\ units = [u \in UnitIds(mode) |-> FreshUnit]
  /\ stats = ZeroStats
  /\ aborted = FALSE
  /\ faults = 0
  /\ first = NoFirst
  /\ args = NoCall
  /\ result = NoCall

SpecOccupied == InitOccupied /\ [][Next]_vars

\* C21: when the resolution of a file ends in error_too_many_duplicates the
\* caller counts the file as an error and as nothing else, and leaves the
\* different file at the base target path as it is
C21_TooManyDuplicatesIsAnError ==
  run = 1 /\ mode \in {"perf", "single"}
    => /\ ContentAt(disk, GamePath(<<>>)) = "W"
       /\ AllDone /\ Undisturbed
            => /\ stats.errors = NumFolders
               /\ stats.files_replaced = 0
               /\ stats.files_copied <= 1

(***************************************************************************)
(* copy_file_with_retry: the loop over the attempts.  An attempt lands     *)
(* some content at the target or raises; delays are in tenths of a second. *)
(***************************************************************************)
\* the bound of the model: the largest max_retries a caller passes
MaxTries == 4

Attempted(success, info, target) ==
  [success |-> success, info |-> info, target |-> target]

\* copy_file_with_verification keeping a copy whose CRC32 differs
copy_file_with_verification_keeping(content, landed) ==
  IF landed = Absent THEN Attempted(FALSE, "exception", Absent)
  ELSE IF Crc32(content) # Crc32(landed)
    THEN Attempted(FALSE, "crc_mismatch", landed)
  ELSE Attempted(TRUE, "crc_ok", landed)

\* copy_file_with_verification: landed is what shutil.copy2 left at the
\* target, Absent when it raised (the except clause removes a partial copy)
copy_file_with_verification(content, landed) ==
  IF landed = Absent THEN Attempted(FALSE, "exception", Absent)
  ELSE IF Crc32(content) # Crc32(landed)
    THEN Attempted(FALSE, "crc_mismatch", Absent)
  ELSE Attempted(TRUE, "crc_ok", landed)

\* delays = [0.1, 0.3, 0.7]
delays == <<1, 3, 7>>

Min(a, b) == IF a < b THEN a ELSE b

\* delays[min(attempt, len(delays) - 1)], attempt counted from 0
delay_of(attempt) == delays[Min(attempt, Len(delays) - 1) + 1]

NoReturn == [success |-> FALSE, info |-> "running", attempts |-> 0]

Returned(success, info, attempts) ==
  [success |-> success, info |-> info, attempts |-> attempts]

RetryArgs ==
  [content : {"X", "Z"}, prior : {Absent, "W"}, max_retries : 1..MaxTries]

Retry(pc, attempt, target, outcomes, slept, returned) ==
  [pc |-> pc, attempt |-> attempt, target |-> target, outcomes |-> outcomes,
   slept |-> slept, returned |-> returned]

InitRetry ==
  /\ Idle /\ args \in RetryArgs
  /\ result = Retry("attempt", 0, args.prior, <<>>, <<>>, NoReturn)

\* what the loop does with the result of an attempt
AfterAttempt(r, a, done) ==
  IF done.success
    THEN [r EXCEPT !.pc = "returned", !.target = done.target,
                   !.outcomes = Append(@, done),
                   !.returned = Returned(TRUE, done.info, r.attempt + 1)]
  ELSE IF r.attempt < a.max_retries - 1
    THEN [r EXCEPT !.pc = "sleep", !.target = done.target,
                   !.outcomes = Append(@, done)]
  ELSE [r EXCEPT !.pc = "returned", !.target = done.target,
                 !.outcomes = Append(@, done),
                 !.returned = Returned(FALSE, done.info, a.max_retries)]

\* one round of "for attempt in range(max_retries)" up to the backoff
Attempt ==
  /\ result.pc = "attempt"
  /\ \E landed \in {args.content, "E", Absent} :
       result' = AfterAttempt(result, args,
                   copy_file_with_verification(args.content, landed))
  /\ UNCHANGED <<args, engine>>

\* time.sleep(delay) and the next round
Backoff ==
  /\ result.pc = "sleep"
  /\ result' = [result EXCEPT !.pc = "attempt", !.attempt = @ + 1,
                              !.slept = Append(@, delay_of(result.attempt))]
  /\ UNCHANGED <<args, engine>>

NextRetry == Attempt \/ Backoff

SpecRetry == InitRetry /\ [][NextRetry]_vars

C23_SelectedRetryPolicyApplied ==
  result.pc \in {"copying", "copied", "failed"}
    => /\ result.attempts <= result.strategy.max_attempts
       /\ result.slept # <<>> => result.slept[1] = result.strategy.base_delay

(***************************************************************************)
(* process_files_concurrent: the grouping of the files by source folder    *)
(* and the thread pool that is given one folder per task.                  *)
(***************************************************************************)
\* the bound of the model: the largest max_io_workers
MaxWorkers == 3

FolderFile(folder, name) == [folder |-> folder, name |-> name]

\* lists of files as discovery supplies them
FileLists ==
  { << FolderFile("A", "1"), FolderFile("B", "1"), FolderFile("A", "2"),
       FolderFile("C", "1") >>,
    << FolderFile("A", "1"), FolderFile("A", "2"), FolderFile("B", "1"),
       FolderFile("B", "2") >>,
    << FolderFile("B", "1"), FolderFile("A", "1"), FolderFile("A", "2") >>,
    << FolderFile("A", "1"), FolderFile("A", "2") >> }

\* one task per file instead of one per folder
RECURSIVE files_per_task(_, _)
files_per_task(all_files, k) ==
  IF k > Len(all_files) THEN <<>>
  ELSE << <<all_files[k]>> >> \o files_per_task(all_files, k + 1)

\* files_by_folder[Path(file_path).parent].append(file_path): the lists of
\* the folders in the order in which the folders first appear
RECURSIVE files_by_folder(_, _)
files_by_folder(all_files, k) ==
  IF k > Len(all_files) THEN <<>>
  ELSE IF \E j \in 1..(k - 1) : all_files[j].folder = all_files[k].folder
    THEN files_by_folder(all_files, k + 1)
  ELSE << SelectSeq(all_files,
                    LAMBDA f : f.folder = all_files[k].folder) >>
         \o files_by_folder(all_files, k + 1)

\* max_workers = min(self.max_io_workers, len(files_by_folder))
pool_size(max_io_workers, tasks) == Min(max_io_workers, Len(tasks))

PoolArgs == [all_files : FileLists, max_io_workers : 1..MaxWorkers]

IdleWorker == [task |-> 0, idx |-> 0]

Pool(tasks, submitted, queue, workers, log) ==
  [tasks |-> tasks, submitted |-> submitted, queue |-> queue,
   workers |-> workers, log |-> log]

\* the executor as the with statement creates it
NewPool(max_io_workers, tasks) ==
  Pool(tasks, 0, <<>>,
       [w \in 1..pool_size(max_io_workers, tasks) |-> IdleWorker], <<>>)

InitPool ==
  /\ Idle /\ args \in PoolArgs
  /\ result = NewPool(args.max_io_workers, files_by_folder(args.all_files, 1))

\* executor.submit(process_folder_files, folder_path, folder_files)
Submit ==
  /\ result.submitted < Len(result.tasks)
  /\ result' = [result EXCEPT !.submitted = @ + 1,
                              !.queue = Append(@, result.submitted + 1)]
  /\ UNCHANGED <<args, engine>>

\* an idle thread of the pool takes the task at the head of the queue
TakeTask(w) ==
  /\ result.workers[w].task = 0 /\ result.queue # <<>>
  /\ result' = [result EXCEPT !.queue = Tail(@),
                  !.workers[w] = [task |-> Head(result.queue), idx |-> 1]]
  /\ UNCHANGED <<args, engine>>

\* process_folder_files: the next file of "for file_path in folder_files"
ProcessFile(w) ==
  /\ result.workers[w].task # 0
  /\ result.workers[w].idx <= Len(result.tasks[result.workers[w].task])
  /\ result' = [result EXCEPT !.workers[w].idx = @ + 1,
                  !.log = Append(@, [worker |-> w,
                     file |-> result.tasks[result.workers[w].task][result.workers[w].idx]])]
  /\ UNCHANGED <<args, engine>>

\* process_folder_files returns
FinishTask(w) ==
  /\ result.workers[w].task # 0
  /\ result.workers[w].idx > Len(result.tasks[result.workers[w].task])
  /\ result' = [result EXCEPT !.workers[w] = IdleWorker]
  /\ UNCHANGED <<args, engine>>

NextPool ==
  \/ Submit
  \/ \E w \in DOMAIN result.workers : TakeTask(w) \/ ProcessFile(w) \/ FinishTask(w)

SpecPool == InitPool /\ [][NextPool]_vars

\* the folder a worker is processing files of, "" when it is idle
FolderOf(w) ==
  IF result.workers[w].task = 0 THEN ""
  ELSE result.tasks[result.workers[w].task][1].folder

Folders == { args.all_files[k].folder : k \in 1..Len(args.all_files) }

\* C24: no two workers process files of the same source folder at the same
\* time; the files of a folder are processed by one worker, in the order
\* supplied; the pool has no more workers than there are folders
C24_OneFolderPerWorkUnit ==
  /\ \A v, w \in DOMAIN result.workers :
       v # w /\ FolderOf(v) # "" => FolderOf(v) # FolderOf(w)
  /\ \A folder \in Folders :
       LET done     == SelectSeq(result.log, LAMBDA e : e.file.folder = folder)
           supplied == SelectSeq(args.all_files, LAMBDA f : f.folder = folder)
       IN /\ Len(done) <= Len(supplied)
          /\ \A k \in 1..Len(done) :
               done[k].file = supplied[k] /\ done[k].worker = done[1].worker
  /\ Cardinality(DOMAIN result.workers) <= Cardinality(Folders)

\* two workers are in the middle of different folders of an interleaved
\* file list, the second file of folder A not yet processed
C24_Witness ==
  /\ Len(args.all_files) = 4 /\ args.all_files[2].folder = "B"
  /\ \E v, w \in DOMAIN result.workers :
       /\ FolderOf(v) = "A" /\ result.workers[v].idx = 2
       /\ FolderOf(w) = "B"

(***************************************************************************)
(* process_files_concurrent: the state shared between the folder workers   *)
(* and progress_lock.  Every folder holds FilesPerFolder files; a copy     *)
(* succeeds or fails.  "writes" records, for every write to shared state,  *)
(* what was written, by which worker, and whether the worker held the lock.*)
(***************************************************************************)
\* the bounds of the model: folder workers and files of a folder
LockWorkers == 2

FilesPerFolder == 2

Shared(progress_lock, files_processed, files_copied, errors, folders_created, workers, writes) ==
  [progress_lock |-> progress_lock, files_processed |-> files_processed,
   files_copied |-> files_copied, errors |-> errors,
   folders_created |-> folders_created, workers |-> workers, writes |-> writes]

FolderWorker(pc, idx, folder_copied, folder_errors) ==
  [pc |-> pc, idx |-> idx, folder_copied |-> folder_copied,
   folder_errors |-> folder_errors]

Write(what, w, r) ==
  [what |-> what, worker |-> w, locked |-> r.progress_lock = w]

\* every folder is copied into a platform directory of two
LockArgs == [platform : [1..LockWorkers -> {"nes", "snes"}]]

InitLock ==
  /\ Idle /\ args \in LockArgs
  /\ result = Shared(0, 0, 0, 0, {},
                     [w \in 1..LockWorkers |-> FolderWorker("copy", 1, 0, 0)],
                     {})

\* copy_file_atomic and the bookkeeping of its result: a successful copy
\* adds the target directory to stats.folders_created
CopyAtomic(w) ==
  /\ result.workers[w].pc = "copy"
  /\ \E success \in BOOLEAN :
       result' =
         IF success
           THEN [result EXCEPT
                   !.folders_created = @ \cup {args.platform[w]},
                   !.writes = IF args.platform[w] \in result.folders_created
                                THEN @
                                ELSE @ \cup {Write("folders_created", w, result)},
                   !.workers[w] = [@ EXCEPT !.pc = "finally",
                                            !.folder_copied = @ + 1]]
           ELSE [result EXCEPT
                   !.workers[w] = [@ EXCEPT !.pc = "finally",
                                            !.folder_errors = @ + 1]]
  /\ UNCHANGED <<args, engine>>

\* "with progress_lock:" of the finally clause and of the folder totals
Acquire(w) ==
  /\ result.workers[w].pc \in {"finally", "totals"}
  /\ result.progress_lock = 0
  /\ result' = [result EXCEPT !.progress_lock = w,
                  !.workers[w].pc = IF @ = "finally" THEN "count" ELSE "add"]
  /\ UNCHANGED <<args, engine>>

\* files_processed += 1, and the lock is released
CountProcessed(w) ==
  /\ result.workers[w].pc = "count"
  /\ result' = [result EXCEPT
                  !.files_processed = @ + 1,
                  !.writes = @ \cup {Write("files_processed", w, result)},
                  !.progress_lock = 0,
                  !.workers[w] =
                     [@ EXCEPT !.idx = @ + 1,
                               !.pc = IF result.workers[w].idx < FilesPerFolder
                                        THEN "copy" ELSE "totals"]]
  /\ UNCHANGED <<args, engine>>

\* "Update global stats for this folder", and the lock is released
AddFolderTotals(w) ==
  /\ result.workers[w].pc = "add"
  /\ result' = [result EXCEPT
                  !.files_copied = @ + result.workers[w].folder_copied,
                  !.errors = @ + result.workers[w].folder_errors,
                  !.writes = @ \cup {Write("totals", w, result)},
                  !.progress_lock = 0,
                  !.workers[w].pc = "done"]
  /\ UNCHANGED <<args, engine>>

NextLock ==
  \E w \in 1..LockWorkers :
    CopyAtomic(w) \/ Acquire(w) \/ CountProcessed(w) \/ AddFolderTotals(w)

SpecLock == InitLock /\ [][NextLock]_vars

RECURSIVE SumOver(_, _, _)
SumOver(workers, field, w) ==
  IF w = 0 THEN 0 ELSE workers[w][field] + SumOver(workers, field, w - 1)

\* C25: every write a worker makes to the shared counters and to the set of
\* created directories is made while it holds progress_lock; no copy is
\* made while the lock is held; in the end the totals are the sums of the
\* per-folder counts
C25_SharedStateUnderLock ==
  /\ \A x \in result.writes : x.locked
  /\ \A w \in 1..LockWorkers :
       result.workers[w].pc = "copy" => result.progress_lock # w
  /\ (\A w \in 1..LockWorkers : result.workers[w].pc = "done")
       => /\ result.files_copied
               = SumOver(result.workers, "folder_copied", LockWorkers)
          /\ result.errors
               = SumOver(result.workers, "folder_errors", LockWorkers)
          /\ result.files_processed = LockWorkers * FilesPerFolder

\* C26: when an exception leaves the processing of a folder, the sibling
\* workers run on, and every file of the folder that was not processed
\* because of it is counted in errors
C26_OneErrorPerAffectedFile ==
  \A u \in DOMAIN units :
    units[u].pc = "raised"
      => stats.errors >= Len(Files(u)) - units[u].idx + 1

\* an entry of PLATFORM_MAPPINGS written as one exact folder name: ^name$
ExactNameEntry(k) ==
  LET pattern == PLATFORM_MAPPINGS[k].pattern
  IN Len(pattern) = 3 /\ pattern[1] = Bos /\ pattern[3] = Eos

\* C27: a folder that the catalog classifies and whose normalized name is
\* the name of an exact-name entry carries the result of that entry: no
\* earlier, broader entry with a different result decides for it
C27_SpecificEntryWins ==
  LET raw == args.folder_name
      normalized == IF args.enable_subcategory_processing
                      THEN subcategory_processor_process(raw) ELSE raw
  IN result # Unscanned /\ result.class = "platform"
     /\ specialized_process(raw).shortcode = None
       => \A k \in 1..Len(PLATFORM_MAPPINGS) :
            ExactNameEntry(k)
            /\ re_match(CatalogPatterns[k], Lower(normalized)) # NoMatch
              => result.shortcode =
                   get_target_platform(args.regional_mode, normalized,
                                       PLATFORM_MAPPINGS[k].shortcode)

\* the sum of folder_count over the platform records
RECURSIVE FolderCounts(_, _)
FolderCounts(platforms, codes) ==
  IF codes = {} THEN 0
  ELSE LET s == CHOOSE c \in codes : TRUE
       IN platforms[s].folder_count + FolderCounts(platforms, codes \ {s})

Occurrences(list, name) ==
  Cardinality({ k \in 1..Len(list) : list[k] = name })

RECURSIVE Listings(_, _, _)
Listings(platforms, codes, name) ==
  IF codes = {} THEN 0
  ELSE LET s == CHOOSE c \in codes : TRUE
       IN Occurrences(platforms[s].source_folders, name)
            + Listings(platforms, codes \ {s}, name)

\* in how many of the five classes the top-level directory i was put
ClassesOf(i) ==
  LET dir == args.source[i]
      skipped_target == i < result.idx /\ i = args.target_dir
      skipped_empty == /\ i < result.idx /\ i # args.target_dir
                       /\ ~args.include_empty_dirs /\ Recognized(dir) = 0
  IN (IF skipped_target THEN 1 ELSE 0)
     + (IF skipped_empty THEN 1 ELSE 0)
     + (IF dir.name \in DOMAIN result.excluded THEN 1 ELSE 0)
     + Occurrences(result.unknown, dir.name)
     + Listings(result.platforms, DOMAIN result.platforms, dir.name)

TopLevelNames == { args.source[i].name : i \in 1..Len(args.source) }

CounterSum(st) ==
  st.files_copied + st.files_replaced + st.files_renamed_duplicates
    + st.files_skipped_duplicate + st.errors

\* C29: when the copy phase has returned, after a shutdown request or not,
\* the five counters add up to the number of files processed
C29_CountersAddUp ==
  (run = 1 /\ AllDone) => CounterSum(stats) = stats.files_processed

(***************************************************************************)
(* The files discovered for the selected platforms are grouped by folder:  *)
(* platform by platform in the order of the platform map, which is the     *)
(* order in which the scan met the folders                                 *)
(***************************************************************************)
MaxPlatforms == 3

SourceDir == Chars("/src")

\* the folders of a collection and the platforms the scan gives them
ScannedFolders ==
  { PlatformInfo("gb", "Game Boy", 1, 2, <<Chars("Nintendo - Game Boy")>>),
    PlatformInfo("gbc", "Game Boy Color", 1, 2, <<Chars("Nintendo - Game Boy Color")>>),
    PlatformInfo("nes", "NES", 1, 2, <<Chars("NES")>>),
    PlatformInfo("snes", "SNES", 1, 2, <<Chars("SNES")>>) }

\* platform maps: the records in any order of insertion
PlatformMaps ==
  { p \in UNION { [1..n -> ScannedFolders] : n \in 1..MaxPlatforms } :
      \A i, j \in 1..Len(p) : i # j => p[i].shortcode # p[j].shortcode }

\* the platforms selected are some of the platforms of the map
GroupArgs ==
  { a \in [platforms : PlatformMaps,
           selected_platforms : (SUBSET ScannedFolders) \ {{}}] :
      \A q \in a.selected_platforms :
        \E k \in 1..Len(a.platforms) : a.platforms[k] = q }

\* a path below the source directory
Path(parent, name) == [parent |-> parent, name |-> name]

\* folder_path.rglob("*"): a ROM file in the source folder and one in a
\* directory below it
FilesOfFolder(source_folder) ==
  << Path(SourceDir \o <<"/">> \o source_folder, Chars("a.zip")),
     Path(SourceDir \o <<"/">> \o source_folder \o Chars("/Disc"), Chars("b.zip")) >>

RECURSIVE FilesOfFolders(_, _)
FilesOfFolders(source_folders, k) ==
  IF k > Len(source_folders) THEN <<>>
  ELSE FilesOfFolder(source_folders[k]) \o FilesOfFolders(source_folders, k + 1)

\* discover_files_concurrent: the ROM files of the source folders of the
\* selected platforms
RECURSIVE discover_files_concurrent(_, _, _)
discover_files_concurrent(platforms, selected_platforms, k) ==
  IF k > Len(platforms) THEN <<>>
  ELSE (IF platforms[k] \in selected_platforms
          THEN FilesOfFolders(platforms[k].source_folders, 1) ELSE <<>>)
       \o discover_files_concurrent(platforms, selected_platforms, k + 1)

\* "if str(source_folder) in str(file_path.parent)"
InSourceFolders(source_folders, parent) ==
  \E k \in 1..Len(source_folders) : Contains(parent, source_folders[k])

\* the shortcode of the first platform of the map with a source folder
\* that the test accepts, or None
RECURSIVE platform_of(_, _, _)
platform_of(platforms, parent, k) ==
  IF k > Len(platforms) THEN None
  ELSE IF InSourceFolders(platforms[k].source_folders, parent)
    THEN platforms[k].shortcode
  ELSE platform_of(platforms, parent, k + 1)

FileInfo(path, platform) == [path |-> path, platform |-> platform]

\* files_by_folder[folder_key].append(...) on a defaultdict(list)
Appended(by_folder, folder_key, file_info) ==
  [f \in DOMAIN by_folder \cup {folder_key} |->
     IF f = folder_key
       THEN (IF f \in DOMAIN by_folder THEN by_folder[f] ELSE <<>>)
              \o <<file_info>>
     ELSE by_folder[f]]

\* one round of the loop of _group_files_by_folder
group_file(platforms, by_folder, file_path) ==
  LET platform_shortcode == platform_of(platforms, file_path.parent, 1)
  IN IF platform_shortcode # None
       THEN Appended(by_folder, file_path.parent,
                     FileInfo(file_path, platform_shortcode))
     ELSE by_folder

NoFolders == [f \in {} |-> <<>>]

Grouping(pc, all_files, idx, by_folder) ==
  [pc |-> pc, all_files |-> all_files, idx |-> idx,
   files_by_folder |-> by_folder]

InitGroup ==
  /\ Idle /\ args \in GroupArgs
  /\ result = Grouping("discover", <<>>, 1, NoFolders)

DiscoverFiles ==
  /\ result.pc = "discover"
  /\ result' = Grouping("group",
                 discover_files_concurrent(args.platforms,
                                           args.selected_platforms, 1),
                 1, NoFolders)
  /\ UNCHANGED <<args, engine>>

GroupFile ==
  /\ result.pc = "group" /\ result.idx <= Len(result.all_files)
  /\ result' = Grouping("group", result.all_files, result.idx + 1,
                 group_file(args.platforms, result.files_by_folder,
                            result.all_files[result.idx]))
  /\ UNCHANGED <<args, engine>>

NextGroup == DiscoverFiles \/ GroupFile

SpecGroup == InitGroup /\ [][NextGroup]_vars

\* the file lies in or below one of the source folders
LiesUnder(parent, source_folders) ==
  \E k \in 1..Len(source_folders) :
    LET folder == SourceDir \o <<"/">> \o source_folders[k]
    IN \/ parent = folder
       \/ /\ Len(parent) > Len(folder)
          /\ SubSeq(parent, 1, Len(folder) + 1) = folder \o <<"/">>

\* C30: every grouped file carries the platform whose source folders hold
\* its directory, and when the grouping is over every discovered file of a
\* selected platform is in the group of its directory
C30_GroupedUnderOwnPlatform ==
  /\ \A f \in DOMAIN result.files_by_folder :
       \A k \in 1..Len(result.files_by_folder[f]) :
         LET info == result.files_by_folder[f][k]
         IN \E p \in 1..Len(args.platforms) :
              /\ args.platforms[p].shortcode = info.platform
              /\ LiesUnder(info.path.parent, args.platforms[p].source_folders)
  /\ result.pc = "group" /\ result.idx > Len(result.all_files) =>
       \A i \in 1..Len(result.all_files) :
         LET file == result.all_files[i]
         IN /\ file.parent \in DOMAIN result.files_by_folder
            /\ \E k \in 1..Len(result.files_by_folder[file.parent]) :
                 result.files_by_folder[file.parent][k].path = file

====
